---- MODULE Spec2Model ----
(***************************************************************************)
(* WxCraft: the METAR decoder (DecodeMETAR), the remarks decoder           *)
(* (processRemarks) and the TAF decoder (DecodeTAF) as state machines.     *)
(* Tokens are strings; every recognizer is computed character by           *)
(* character as the regular expressions and string tests of the source do. *)
(* Indices are 0-based as in the Go source: At(s, k) is s[k].              *)
(***************************************************************************)
EXTENDS Integers, Sequences, FiniteSets, TLC

VARIABLES
    now,            \* time.Now().UTC(), fixed during a behaviour
    raw,            \* the input string of the decode call
    kind,           \* which entry point runs: "METAR", "TAF" or "RMK"
    pc,             \* position inside the running function
    call,           \* 1 for the first decode of raw, 2 for the second
    first,          \* the record the first decode call returned
    parts,          \* the local token slice
    i,              \* the cursor of the running loop
    endIndex,       \* DecodeMETAR: end of the main body
    rmkIndex,       \* DecodeMETAR: index of RMK or -1
    pressureFound,  \* DecodeMETAR: pressureFound
    m,              \* the METAR record under construction
    t,              \* the TAF record under construction
    remarkParts,    \* processRemarks: its argument
    remarks,        \* processRemarks: the remarks built so far
    trace,          \* history: one entry per loop iteration (tokens taken, fields written)
    panicked,       \* TRUE once an index or slice expression is out of range
    cli             \* the command-line program: flags, standard input, position, calls made

vars == <<now, raw, kind, pc, call, first, parts, i, endIndex, rmkIndex,
          pressureFound, m, t, remarkParts, remarks, trace, panicked, cli>>

(***************************************************************************)
(* Strings                                                                 *)
(***************************************************************************)
\* s[from:to] of a string, "" where the bounds leave the string
Slice(s, from, to) ==
    LET f  == IF from < 0 THEN 0 ELSE from
        tt == IF to > Len(s) THEN Len(s) ELSE to
    IN  IF f >= tt THEN "" ELSE SubSeq(s, f + 1, tt)

SliceFrom(s, from) == Slice(s, from, Len(s))

\* the one-character string s[k]
Ch(s, k) == Slice(s, k, k + 1)

\* Whether seq[k] is inside the slice (outside, Go panics).
InRange(seq, k) == 0 <= k /\ k < Len(seq)

\* seq[k] of a slice of tokens
At(seq, k) == IF InRange(seq, k) THEN seq[k + 1] ELSE ""

\* seq[from:] of a slice of tokens
TokensFrom(seq, from) == SubSeq(seq, from + 1, Len(seq))

Digits == {"0", "1", "2", "3", "4", "5", "6", "7", "8", "9"}

Whitespace == {" ", "\t", "\n", "\r"}

IsDigits(s) == \A k \in 0..(Len(s) - 1) : Ch(s, k) \in Digits

HasPrefix(s, p) == Len(s) >= Len(p) /\ Slice(s, 0, Len(p)) = p

HasSuffix(s, p) == Len(s) >= Len(p) /\ SliceFrom(s, Len(s) - Len(p)) = p

Contains(s, sub) ==
    \E k \in 0..(Len(s) - Len(sub)) : Slice(s, k, k + Len(sub)) = sub

DigitVal(c) ==
    CASE c = "0" -> 0 [] c = "1" -> 1 [] c = "2" -> 2 [] c = "3" -> 3
      [] c = "4" -> 4 [] c = "5" -> 5 [] c = "6" -> 6 [] c = "7" -> 7
      [] c = "8" -> 8 [] c = "9" -> 9

RECURSIVE DigitsVal(_)
DigitsVal(s) ==
    IF Len(s) = 0 THEN 0
    ELSE DigitsVal(Slice(s, 0, Len(s) - 1)) * 10 + DigitVal(Ch(s, Len(s) - 1))

\* strconv.Atoi: an optional sign, then digits only; err != nil otherwise
\* (18 digits always fit an int; longer strings are outside the model).
AtoiOk(s) ==
    LET body == IF Len(s) > 0 /\ Ch(s, 0) \in {"+", "-"} THEN SliceFrom(s, 1) ELSE s
    IN  Len(body) > 0 /\ Len(body) <= 18 /\ IsDigits(body)

\* strconv.Atoi's value; 0 when it reports an error.
Atoi(s) ==
    IF ~AtoiOk(s) THEN 0
    ELSE IF Ch(s, 0) = "-" THEN 0 - DigitsVal(SliceFrom(s, 1))
    ELSE IF Ch(s, 0) = "+" THEN DigitsVal(SliceFrom(s, 1))
    ELSE DigitsVal(s)

\* First position at or after pos that holds a white-space character (space
\* TRUE) or another character (space FALSE); Len(s) when there is none.
NextAt(s, pos, space) ==
    LET hits == {k \in pos..(Len(s) - 1) : (Ch(s, k) \in Whitespace) = space}
    IN  IF hits = {} THEN Len(s) ELSE CHOOSE k \in hits : \A j \in hits : k <= j

\* strings.Fields: split around runs of white space.
RECURSIVE FieldsFrom(_, _, _)
FieldsFrom(s, pos, acc) ==
    LET start == NextAt(s, pos, FALSE)
        stop  == NextAt(s, start, TRUE)
    IN  IF start >= Len(s) THEN acc
        ELSE FieldsFrom(s, stop, Append(acc, Slice(s, start, stop)))

Fields(s) == FieldsFrom(s, 0, <<>>)

\* strings.Join
RECURSIVE Join(_, _)
Join(seq, sep) ==
    IF Len(seq) = 0 THEN ""
    ELSE IF Len(seq) = 1 THEN seq[1]
    ELSE seq[1] \o sep \o Join(Tail(seq), sep)

\* Number of leading digits of s from position pos.
RECURSIVE DigitRun(_, _)
DigitRun(s, pos) ==
    IF pos < Len(s) /\ Ch(s, pos) \in Digits THEN 1 + DigitRun(s, pos + 1) ELSE 0

(***************************************************************************)
(* time.Time, to the minute.  time.Date normalises out-of-range fields     *)
(* (hour 24, day 31 of a 30-day month, month 0 or 13).                     *)
(***************************************************************************)
ZeroTime == [Y |-> 1, Mo |-> 1, D |-> 1, H |-> 0, Mi |-> 0]

IsZero(tm) == tm = ZeroTime

IsLeap(y) == (y % 4 = 0 /\ y % 100 # 0) \/ y % 400 = 0

DaysIn(y, mo) ==
    IF mo = 2 THEN (IF IsLeap(y) THEN 29 ELSE 28)
    ELSE IF mo \in {4, 6, 9, 11} THEN 30 ELSE 31

RECURSIVE NormDay(_, _, _)
NormDay(y, mo, d) ==
    IF mo > 12 THEN NormDay(y + 1, mo - 12, d)
    ELSE IF mo < 1 THEN NormDay(y - 1, mo + 12, d)
    ELSE IF d < 1
         THEN LET py == IF mo = 1 THEN y - 1 ELSE y
                  pm == IF mo = 1 THEN 12 ELSE mo - 1
              IN  NormDay(py, pm, d + DaysIn(py, pm))
    ELSE IF d > DaysIn(y, mo)
         THEN NormDay(IF mo = 12 THEN y + 1 ELSE y, IF mo = 12 THEN 1 ELSE mo + 1,
                      d - DaysIn(y, mo))
    ELSE [Y |-> y, Mo |-> mo, D |-> d]

\* time.Date(y, mo, d, h, mi, 0, 0, time.UTC) for non-negative h and mi
Date(y, mo, d, h, mi) ==
    LET hh  == h + (mi \div 60)
        ymd == NormDay(y, mo, d + (hh \div 24))
    IN  [Y |-> ymd.Y, Mo |-> ymd.Mo, D |-> ymd.D, H |-> hh % 24, Mi |-> mi % 60]

\* tm.AddDate(0, months, 0)
AddMonths(tm, months) == Date(tm.Y, tm.Mo + months, tm.D, tm.H, tm.Mi)

(***************************************************************************)
(* The grammar tables of definitions.go.  A matcher returns                *)
(* [ok, g]: whether the pattern matches and the submatches g[1], g[2], ... *)
(* as FindStringSubmatch numbers them.                                     *)
(***************************************************************************)
NoMatch == [ok |-> FALSE, g |-> <<>>]

Match(groups) == [ok |-> TRUE, g |-> groups]

weatherCodes ==
    {"WS", "VC", "+", "-", "MI", "PR", "BC", "DR", "BL", "SH", "TS", "FZ", "DZ",
     "RA", "SN", "SG", "IC", "PL", "GR", "GS", "UP", "BR", "FG", "FU", "VA", "DU",
     "SA", "HZ", "PY", "PO", "SQ", "FC", "SS", "DS"}

cloudCoverage == {"SKC", "CLR", "FEW", "SCT", "BKN", "OVC"}

\* ^(\d{2})(\d{2})(\d{2})Z$
timeRegex(s) ==
    IF Len(s) = 7 /\ IsDigits(Slice(s, 0, 6)) /\ Ch(s, 6) = "Z"
    THEN Match(<<Slice(s, 0, 2), Slice(s, 2, 4), Slice(s, 4, 6)>>)
    ELSE NoMatch

\* ^(VRB|\d{3})(\d{2,3})(G(\d{2,3}))?<unit>$ applied to the text before the unit
WindBody(b) ==
    LET n    == DigitRun(b, 3)
        rest == SliceFrom(b, 3 + n)
    IN  IF Len(b) >= 5
           /\ (Slice(b, 0, 3) = "VRB" \/ IsDigits(Slice(b, 0, 3)))
           /\ n \in {2, 3}
           /\ (rest = ""
               \/ (Ch(rest, 0) = "G" /\ Len(rest) \in {3, 4} /\ IsDigits(SliceFrom(rest, 1))))
        THEN Match(<<Slice(b, 0, 3), Slice(b, 3, 3 + n), rest,
                     IF rest = "" THEN "" ELSE SliceFrom(rest, 1)>>)
        ELSE NoMatch

\* ^(VRB|\d{3})(\d{2,3})(G(\d{2,3}))?KT$
windRegex(s) ==
    IF HasSuffix(s, "KT") THEN WindBody(Slice(s, 0, Len(s) - 2)) ELSE NoMatch

\* ^(VRB|\d{3})(\d{2,3})(G(\d{2,3}))?MPS$
windRegexMPS(s) ==
    IF HasSuffix(s, "MPS") THEN WindBody(Slice(s, 0, Len(s) - 3)) ELSE NoMatch

\* ^(\d{3})V(\d{3})$
windVarRegex(s) ==
    IF Len(s) = 7 /\ IsDigits(Slice(s, 0, 3)) /\ Ch(s, 3) = "V" /\ IsDigits(Slice(s, 4, 7))
    THEN Match(<<Slice(s, 0, 3), Slice(s, 4, 7)>>)
    ELSE NoMatch

\* ^WS(\d{3})/(\d{3})(\d{2,3})(G(\d{2,3}))?KT$
windShearAltRegex(s) ==
    LET w == IF Len(s) >= 6 THEN windRegex(SliceFrom(s, 6)) ELSE NoMatch
    IN  IF HasPrefix(s, "WS") /\ Len(s) >= 6 /\ IsDigits(Slice(s, 2, 5)) /\ Ch(s, 5) = "/"
           /\ w.ok /\ w.g[1] # "VRB"
        THEN Match(<<Slice(s, 2, 5), w.g[1], w.g[2], w.g[3], w.g[4]>>)
        ELSE NoMatch

\* Number of white-space characters of s from position pos.
RECURSIVE SpaceRun(_, _)
SpaceRun(s, pos) ==
    IF pos < Len(s) /\ Ch(s, pos) \in Whitespace THEN 1 + SpaceRun(s, pos + 1) ELSE 0

\* (\d{2}[LCR]?)?$ : "" or a runway identifier, to the end of the text
RunwayIdOpt(r) ==
    r = "" \/ (Len(r) \in {2, 3} /\ IsDigits(Slice(r, 0, 2))
               /\ (Len(r) = 2 \/ Ch(r, 2) \in {"L", "C", "R"}))

\* ^WS(\s+(TKOF|LDG|ALL)\s+RWY(\d{2}[LCR]?)?|\s+R(\d{2}[LCR]?)?)$
windShearRwyRegex(s) ==
    LET n1    == SpaceRun(s, 2)
        a     == SliceFrom(s, 2 + n1)
        phase == IF HasPrefix(a, "TKOF") THEN "TKOF"
                 ELSE IF HasPrefix(a, "LDG") THEN "LDG"
                 ELSE IF HasPrefix(a, "ALL") THEN "ALL" ELSE ""
        n2    == SpaceRun(a, Len(phase))
        b     == SliceFrom(a, Len(phase) + n2)
    IN  IF ~(HasPrefix(s, "WS") /\ n1 >= 1) THEN NoMatch
        ELSE IF phase # "" /\ n2 >= 1 /\ HasPrefix(b, "RWY") /\ RunwayIdOpt(SliceFrom(b, 3))
             THEN Match(<<SliceFrom(s, 2), phase, SliceFrom(b, 3), "">>)
        ELSE IF HasPrefix(a, "R") /\ RunwayIdOpt(SliceFrom(a, 1))
             THEN Match(<<SliceFrom(s, 2), "", "", SliceFrom(a, 1)>>)
        ELSE NoMatch

\* \d+(?:/\d+)?$ : digits, optionally a slash and digits, to the end of the text
IsFraction(b) ==
    LET n == DigitRun(b, 0)
    IN  n >= 1 /\ (n = Len(b)
                   \/ (Ch(b, n) = "/" /\ Len(b) > n + 1 /\ IsDigits(SliceFrom(b, n + 1))))

\* ^M?(\d+(?:/\d+)?)SM$
visRegexM(s) ==
    LET b == IF HasSuffix(s, "SM") THEN Slice(s, 0, Len(s) - 2) ELSE ""
        v == IF HasPrefix(b, "M") THEN SliceFrom(b, 1) ELSE b
    IN  IF HasSuffix(s, "SM") /\ IsFraction(v) THEN Match(<<v>>) ELSE NoMatch

\* ^(\d+(?:/\d+)?|M|P)(\d+)SM$ : the second group needs a digit of its own, so
\* the text before SM is M or P and digits, or two or more digits, or digits,
\* a slash and two or more digits.
visRegexP(s) ==
    LET b == IF HasSuffix(s, "SM") THEN Slice(s, 0, Len(s) - 2) ELSE ""
        n == DigitRun(b, 0)
    IN  HasSuffix(s, "SM")
        /\ \/ (Len(b) >= 2 /\ Ch(b, 0) \in {"M", "P"} /\ IsDigits(SliceFrom(b, 1)))
           \/ (n >= 2 /\ n = Len(b))
           \/ (n >= 1 /\ n < Len(b) /\ Ch(b, n) = "/" /\ Len(b) >= n + 3
               /\ IsDigits(SliceFrom(b, n + 1)))

\* ^\d{4}$
visRegexNum(s) == Len(s) = 4 /\ IsDigits(s)

\* ^(\d{4})([NESW]{1,2})$
visRegexDir(s) ==
    Len(s) \in {5, 6} /\ IsDigits(Slice(s, 0, 4))
    /\ \A k \in 4..(Len(s) - 1) : Ch(s, k) \in {"N", "E", "S", "W"}

\* ^(\d{4,5})NDV$
ndvRegex(s) ==
    HasSuffix(s, "NDV") /\ Len(s) \in {7, 8} /\ IsDigits(Slice(s, 0, Len(s) - 3))

\* ^VV(\d{3})$
vvRegex(s) ==
    IF Len(s) = 5 /\ HasPrefix(s, "VV") /\ IsDigits(SliceFrom(s, 2))
    THEN Match(<<SliceFrom(s, 2)>>)
    ELSE NoMatch

\* ^(SKC|CLR|FEW|SCT|BKN|OVC)(\d{3})?(CB|TCU)?$
cloudRegex(s) ==
    LET hasH == Len(s) >= 6 /\ IsDigits(Slice(s, 3, 6))
        h    == IF hasH THEN Slice(s, 3, 6) ELSE ""
        ty   == SliceFrom(s, 3 + Len(h))
    IN  IF Len(s) >= 3 /\ Slice(s, 0, 3) \in cloudCoverage /\ ty \in {"", "CB", "TCU"}
        THEN Match(<<Slice(s, 0, 3), h, ty>>)
        ELSE NoMatch

\* ^(M?)(\d{2})/(M?)(\d{2})$
tempRegex(s) ==
    LET m1 == IF HasPrefix(s, "M") THEN "M" ELSE ""
        a  == SliceFrom(s, Len(m1))
        b  == IF Len(a) >= 3 THEN SliceFrom(a, 3) ELSE ""
        m2 == IF HasPrefix(b, "M") THEN "M" ELSE ""
        c  == SliceFrom(b, Len(m2))
    IN  IF Len(a) >= 3 /\ IsDigits(Slice(a, 0, 2)) /\ Ch(a, 2) = "/"
           /\ Len(c) = 2 /\ IsDigits(c)
        THEN Match(<<m1, Slice(a, 0, 2), m2, c>>)
        ELSE NoMatch

\* ^(M?)(\d{2})/$
tempOnlyRegex(s) ==
    LET m1 == IF HasPrefix(s, "M") THEN "M" ELSE ""
        a  == SliceFrom(s, Len(m1))
    IN  IF Len(a) = 3 /\ IsDigits(Slice(a, 0, 2)) /\ Ch(a, 2) = "/"
        THEN Match(<<m1, Slice(a, 0, 2)>>)
        ELSE NoMatch

\* ^A(\d{4})$
pressureRegex(s) ==
    IF Len(s) = 5 /\ Ch(s, 0) = "A" /\ IsDigits(SliceFrom(s, 1))
    THEN Match(<<SliceFrom(s, 1)>>)
    ELSE NoMatch

\* ^(\d{2})(\d{2})/(\d{2})(\d{2})$
validRegex(s) ==
    IF Len(s) = 9 /\ IsDigits(Slice(s, 0, 4)) /\ Ch(s, 4) = "/" /\ IsDigits(Slice(s, 5, 9))
    THEN Match(<<Slice(s, 0, 2), Slice(s, 2, 4), Slice(s, 5, 7), Slice(s, 7, 9)>>)
    ELSE NoMatch

\* ^CAVOK$
cavokRegex(s) == s = "CAVOK"

\* ^(NOSIG|AUTO|COR|CCA|NSC|NCD|RTD)$
specialRegex(s) == s \in {"NOSIG", "AUTO", "COR", "CCA", "NSC", "NCD", "RTD"}

\* ^R(\d{2}[CLR]?)/ : the runway identifier and the text after the slash
RunwayHead(s) ==
    LET n == IF Len(s) >= 4 /\ Ch(s, 3) \in {"C", "L", "R"} THEN 3 ELSE 2
    IN  IF Len(s) >= 4 /\ Ch(s, 0) = "R" /\ IsDigits(Slice(s, 1, 3))
           /\ Len(s) > 1 + n /\ Ch(s, 1 + n) = "/"
        THEN Match(<<Slice(s, 1, 1 + n), SliceFrom(s, 2 + n)>>)
        ELSE NoMatch

\* [MP]?\d+ at the start of b: its length, 0 when absent
PrefixedNumber(b) ==
    LET p == IF Len(b) > 0 /\ Ch(b, 0) \in {"M", "P"} THEN 1 ELSE 0
        n == DigitRun(b, p)
    IN  IF n >= 1 THEN p + n ELSE 0

\* ^R(\d{2}[CLR]?)/([MP]?\d+)([DNU])?$
rvrRegex(s) ==
    LET h == RunwayHead(s)
        b == IF h.ok THEN h.g[2] ELSE ""
        n == PrefixedNumber(b)
    IN  h.ok /\ n >= 1 /\ (n = Len(b) \/ (Len(b) = n + 1 /\ Ch(b, n) \in {"D", "N", "U"}))

\* ^R(\d{2}[CLR]?)/(([MP]?\d+)(V([MP]?\d+))?(FT)?)(/(U|D|N)|U|D|N)?$
runwayCondRegex(s) ==
    LET Groups(id, b, n, var, ft, tr) ==
            IF tr \in {"", "/U", "/D", "/N", "U", "D", "N"}
            THEN Match(<<id, Slice(b, 0, Len(b) - Len(tr)), Slice(b, 0, n), var,
                         IF var = "" THEN "" ELSE SliceFrom(var, 1), ft, tr,
                         IF Len(tr) = 2 THEN SliceFrom(tr, 1) ELSE "">>)
            ELSE NoMatch
        AfterVar(id, b, n, var, b2) ==
            IF HasPrefix(b2, "FT") THEN Groups(id, b, n, var, "FT", SliceFrom(b2, 2))
            ELSE Groups(id, b, n, var, "", b2)
        AfterNumber(id, b, n, b1, nv) ==
            IF nv >= 1 THEN AfterVar(id, b, n, Slice(b1, 0, 1 + nv), SliceFrom(b1, 1 + nv))
            ELSE AfterVar(id, b, n, "", b1)
        AfterSlash(id, b, n) ==
            IF n < 1 THEN NoMatch
            ELSE IF Ch(b, n) = "V"
                 THEN AfterNumber(id, b, n, SliceFrom(b, n), PrefixedNumber(SliceFrom(b, n + 1)))
            ELSE AfterNumber(id, b, n, SliceFrom(b, n), 0)
        AfterHead(h) ==
            IF h.ok THEN AfterSlash(h.g[1], h.g[2], PrefixedNumber(h.g[2])) ELSE NoMatch
    IN  AfterHead(RunwayHead(s))

\* ^R(\d{2}[CLR]?)/CLRD(\d{2})$
runwayClearedRegex(s) ==
    LET h == RunwayHead(s)
        b == IF h.ok THEN h.g[2] ELSE ""
    IN  IF h.ok /\ Len(b) = 6 /\ HasPrefix(b, "CLRD") /\ IsDigits(SliceFrom(b, 4))
        THEN Match(<<h.g[1], SliceFrom(b, 4)>>)
        ELSE NoMatch

(***************************************************************************)
(* Records of definitions.go, at their Go zero values.                     *)
(***************************************************************************)
NoWind == [Direction |-> "", Speed |-> 0, Gust |-> 0, Unit |-> ""]

NoWindShear ==
    [Type |-> "", Runway |-> "", Phase |-> "", Altitude |-> 0, Wind |-> NoWind, Raw |-> ""]

NoCloud == [Coverage |-> "", Height |-> 0, Type |-> ""]

NoRunwayCondition ==
    [Runway |-> "", Visibility |-> 0, VisMin |-> 0, VisMax |-> 0, Trend |-> "",
     Unit |-> "", Prefix |-> "", Cleared |-> FALSE, ClearedTime |-> 0, Raw |-> ""]

NoSiteInfo == [Name |-> "", State |-> "", Country |-> ""]

\* A *int: nil, or a pointer to a value.
Nil == [nil |-> TRUE, v |-> 0]

Ptr(x) == [nil |-> FALSE, v |-> x]

\* The zero value of the METAR struct. Pressure is a float64 with at most two
\* decimals here: kept in hundredths.
ZeroMETAR ==
    [Raw |-> "", Station |-> "", Time |-> ZeroTime, SiteInfo |-> NoSiteInfo,
     Wind |-> NoWind, WindShear |-> <<>>, WindVariation |-> "", Visibility |-> "",
     Weather |-> <<>>, Clouds |-> <<>>, VertVis |-> 0, Temperature |-> 0,
     DewPoint |-> Nil, Pressure |-> 0, PressureUnit |-> "", Remarks |-> <<>>,
     RunwayConditions |-> <<>>, RVR |-> <<>>, SpecialCodes |-> <<>>, Unhandled |-> <<>>]

\* The record of the previous call used again as the accumulator.
ReusedMETAR(rawStr) == [m EXCEPT !.Raw = rawStr]

\* m := &METAR{Raw: raw}
NewMETAR(rawStr) == [ZeroMETAR EXCEPT !.Raw = rawStr]

NewForecast(type, rawStr) ==
    [Type |-> type, Probability |-> 0, From |-> ZeroTime, To |-> ZeroTime,
     Wind |-> NoWind, WindShear |-> <<>>, Visibility |-> "", Weather |-> <<>>,
     Clouds |-> <<>>, VertVis |-> 0, Raw |-> rawStr]

NewTAF(rawStr) ==
    [Raw |-> rawStr, Station |-> "", Time |-> ZeroTime, SiteInfo |-> NoSiteInfo,
     ValidFrom |-> ZeroTime, ValidTo |-> ZeroTime, Forecasts |-> <<>>]

(***************************************************************************)
(* parsers.go                                                              *)
(***************************************************************************)
\* parseTime: DDHHMM of the current month, the month before when the day
\* lies after today's.
parseTime(timeStr, tnow) ==
    LET mt     == timeRegex(timeStr)
        day    == Atoi(mt.g[1])
        result == Date(tnow.Y, tnow.Mo, day, Atoi(mt.g[2]), Atoi(mt.g[3]))
    IN  IF ~mt.ok THEN [err |-> TRUE, time |-> ZeroTime]
        ELSE [err |-> FALSE,
              time |-> IF tnow.D < day THEN AddMonths(result, -1) ELSE result]

WindOf(mt, unit) ==
    [Direction |-> mt.g[1], Speed |-> Atoi(mt.g[2]),
     Gust |-> IF mt.g[4] # "" THEN Atoi(mt.g[4]) ELSE 0, Unit |-> unit]

parseWind(windStr) ==
    IF windRegex(windStr).ok THEN WindOf(windRegex(windStr), "KT")
    ELSE IF windRegexMPS(windStr).ok THEN WindOf(windRegexMPS(windStr), "MPS")
    ELSE NoWind

parseWindVariation(varStr) == IF windVarRegex(varStr).ok THEN varStr ELSE ""

parseCloud(cloudStr) ==
    LET mt == cloudRegex(cloudStr)
    IN  IF ~mt.ok THEN NoCloud
        ELSE [Coverage |-> mt.g[1],
              Height |-> IF mt.g[2] # "" THEN Atoi(mt.g[2]) * 100 ELSE 0,
              Type |-> mt.g[3]]

parseWindShear(wsStr) ==
    LET ws  == [NoWindShear EXCEPT !.Raw = wsStr]
        rwy == windShearRwyRegex(wsStr)
        alt == windShearAltRegex(wsStr)
    IN  IF wsStr = "WS ALL RWY" THEN [ws EXCEPT !.Type = "RWY", !.Phase = "ALL"]
        ELSE IF Len(wsStr) > 3 /\ Slice(wsStr, 0, 3) = "WS " /\ Ch(wsStr, 3) = "R"
                /\ Len(wsStr) >= 5
             THEN [ws EXCEPT !.Type = "RWY", !.Runway = SliceFrom(wsStr, 4)]
        ELSE IF rwy.ok
             THEN [ws EXCEPT !.Type = "RWY", !.Phase = rwy.g[1], !.Runway = rwy.g[2]]
        ELSE IF alt.ok
             THEN [ws EXCEPT !.Type = "ALT", !.Altitude = Atoi(alt.g[1]),
                             !.Wind = [Direction |-> alt.g[2], Speed |-> Atoi(alt.g[3]),
                                       Gust |-> IF alt.g[5] # "" THEN Atoi(alt.g[5]) ELSE 0,
                                       Unit |-> "KT"]]
        ELSE ws

parseRunwayCondition(condStr) ==
    LET cond == [NoRunwayCondition EXCEPT !.Raw = condStr]
        Measured(g, prefix, vis) ==
            [cond EXCEPT
                !.Runway = g[1],
                !.Prefix = prefix,
                !.Visibility = vis,
                !.VisMin = IF g[4] # "" THEN vis ELSE 0,
                !.VisMax = IF g[4] = "" THEN 0
                           ELSE IF Ch(g[5], 0) \in {"P", "M"} THEN Atoi(SliceFrom(g[5], 1))
                           ELSE Atoi(g[5]),
                !.Unit = IF g[6] = "FT" THEN "FT" ELSE "",
                !.Trend = IF HasPrefix(g[7], "/") THEN SliceFrom(g[7], 1) ELSE g[7]]
        Matched(g) ==
            IF Ch(g[3], 0) \in {"P", "M"}
            THEN Measured(g, Ch(g[3], 0), Atoi(SliceFrom(g[3], 1)))
            ELSE Measured(g, "", Atoi(g[3]))
        Tried(clr, mt) ==
            IF clr.ok
            THEN [cond EXCEPT !.Runway = clr.g[1], !.Cleared = TRUE,
                              !.ClearedTime = Atoi(clr.g[2])]
            ELSE IF ~mt.ok THEN cond
            ELSE Matched(mt.g)
    IN  Tried(runwayClearedRegex(condStr), runwayCondRegex(condStr))

(***************************************************************************)
(* decoders.go: the token tests                                            *)
(***************************************************************************)
HasCloudPrefix(s) == \E c \in cloudCoverage : HasPrefix(s, c)

\* isWeatherCode without the cloud-prefix test.
isWeatherCodeAnywhere(s) == \E code \in weatherCodes : Contains(s, code)

isWeatherCode(s) ==
    IF HasCloudPrefix(s) THEN FALSE
    ELSE \E code \in weatherCodes : Contains(s, code)

isVisibilityInMeters(s) ==
    visRegexNum(s) \/ visRegexDir(s) \/ ndvRegex(s) \/ s = "0000"

isVerticalVisibility(s) == vvRegex(s).ok

\* parseForecastElement: the forecast after one body token of a TAF period
parseForecastElement(forecast, part) ==
    IF windRegex(part).ok THEN [forecast EXCEPT !.Wind = parseWind(part)]
    ELSE IF HasPrefix(part, "WS")
         THEN [forecast EXCEPT !.WindShear = Append(@, parseWindShear(part))]
    ELSE IF visRegexP(part) \/ part = "P6SM" THEN [forecast EXCEPT !.Visibility = part]
    ELSE IF isVisibilityInMeters(part) THEN [forecast EXCEPT !.Visibility = part]
    ELSE IF isVerticalVisibility(part)
         THEN [forecast EXCEPT !.VertVis = Atoi(vvRegex(part).g[1])]
    ELSE IF cloudRegex(part).ok
         THEN [forecast EXCEPT !.Clouds = Append(@, parseCloud(part))]
    ELSE IF isWeatherCode(part) /\ ~HasCloudPrefix(part)
         THEN [forecast EXCEPT !.Weather = Append(@, part)]
    ELSE forecast

(***************************************************************************)
(* DecodeMETAR (decoders.go:323-585)                                       *)
(***************************************************************************)
\* The length test letting a one-token report through (len(parts) < 1).
ShortMETAROne(ps) == Len(ps) < 1

\* decoders.go:327: the report is too short to hold a station and a time
ShortMETAR(ps) == Len(ps) < 2

\* decoders.go:341-346: the observation time, left zero when the token is no time group
MetarTime(ps, tnow) ==
    IF timeRegex(At(ps, 1)).ok /\ ~parseTime(At(ps, 1), tnow).err
    THEN parseTime(At(ps, 1), tnow).time
    ELSE ZeroTime

\* Smallest element of a non-empty set of integers.
Min(S) == CHOOSE x \in S : \A y \in S : x <= y

\* decoders.go:349-361: the first RMK, or -1
FindRmkIndex(ps) ==
    LET hits == {k \in 0..(Len(ps) - 1) : At(ps, k) = "RMK"}
    IN  IF hits = {} THEN 0 - 1 ELSE Min(hits)

\* The main body ending at RMK only (decoders.go:370-374 left out).
FindEndIndexRmkOnly(ps) ==
    IF FindRmkIndex(ps) = 0 - 1 THEN Len(ps) ELSE FindRmkIndex(ps)

\* decoders.go:353-374: the scan stops at the first RMK and collects the
\* TEMPO, BECMG and INTER tokens before it; the main body ends at the earliest.
FindEndIndex(ps) ==
    LET rmk      == FindRmkIndex(ps)
        scanned  == IF rmk = 0 - 1 THEN Len(ps) ELSE rmk
        sections == {k \in 0..(scanned - 1) : At(ps, k) \in {"TEMPO", "BECMG", "INTER"}}
    IN  Min(sections \cup {scanned})

\* The pre-pass without the marking of the tokens it took (decoders.go:393-395,
\* 404-405 left out): the main loop classifies them a second time.
PrePassAtUnmarked(st, k, eIdx) ==
    IF k + 2 < eIdx /\ At(st.parts, k) = "WS" /\ At(st.parts, k + 1) = "ALL"
       /\ At(st.parts, k + 2) = "RWY"
    THEN [parts |-> st.parts,
          ws    |-> Append(st.ws, [NoWindShear EXCEPT !.Type = "RWY", !.Phase = "ALL",
                                                      !.Raw = "WS ALL RWY"]),
          trace |-> Append(st.trace, [idx |-> k, n |-> 3, branch |-> "prepass",
                                      cat |-> {"windshear"}, wrote |-> {"windshear"}])]
    ELSE IF k + 1 < eIdx /\ At(st.parts, k) = "WS" /\ HasPrefix(At(st.parts, k + 1), "R")
            /\ Len(At(st.parts, k + 1)) > 1
    THEN [parts |-> st.parts,
          ws    |-> Append(st.ws, [NoWindShear EXCEPT
                                     !.Type = "RWY",
                                     !.Runway = SliceFrom(At(st.parts, k + 1), 1),
                                     !.Raw = At(st.parts, k) \o " " \o At(st.parts, k + 1)]),
          trace |-> Append(st.trace, [idx |-> k, n |-> 2, branch |-> "prepass",
                                      cat |-> {"windshear"}, wrote |-> {"windshear"}])]
    ELSE st

\* decoders.go:382-407: the pass that marks split wind shear groups.  One
\* iteration at cursor k: the slice, the wind shears and the tokens taken.
PrePassAt(st, k, eIdx) ==
    IF k + 2 < eIdx /\ At(st.parts, k) = "WS" /\ At(st.parts, k + 1) = "ALL"
       /\ At(st.parts, k + 2) = "RWY"
    THEN [parts |-> [j \in 1..Len(st.parts) |->
                        IF j - 1 \in k..(k + 2) THEN "__PROCESSED__" ELSE st.parts[j]],
          ws    |-> Append(st.ws, [NoWindShear EXCEPT !.Type = "RWY", !.Phase = "ALL",
                                                      !.Raw = "WS ALL RWY"]),
          trace |-> Append(st.trace, [idx |-> k, n |-> 3, branch |-> "prepass",
                                      cat |-> {"windshear"}, wrote |-> {"windshear"}])]
    ELSE IF k + 1 < eIdx /\ At(st.parts, k) = "WS" /\ HasPrefix(At(st.parts, k + 1), "R")
            /\ Len(At(st.parts, k + 1)) > 1
    THEN [parts |-> [j \in 1..Len(st.parts) |->
                        IF j - 1 \in k..(k + 1) THEN "__PROCESSED__" ELSE st.parts[j]],
          ws    |-> Append(st.ws, [NoWindShear EXCEPT
                                     !.Type = "RWY",
                                     !.Runway = SliceFrom(At(st.parts, k + 1), 1),
                                     !.Raw = At(st.parts, k) \o " " \o At(st.parts, k + 1)]),
          trace |-> Append(st.trace, [idx |-> k, n |-> 2, branch |-> "prepass",
                                      cat |-> {"windshear"}, wrote |-> {"windshear"}])]
    ELSE st

RECURSIVE PrePassFrom(_, _, _)
PrePassFrom(st, k, eIdx) ==
    IF k < eIdx - 1 THEN PrePassFrom(PrePassAt(st, k, eIdx), k + 1, eIdx) ELSE st

\* decoders.go:540-553: a Q group sets the pressure unless one was found
PressureQ(mm, part, pf) ==
    IF pf THEN [m |-> mm, pf |-> pf]
    ELSE IF AtoiOk(SliceFrom(part, 1))
         THEN [m |-> [mm EXCEPT !.Pressure = Atoi(SliceFrom(part, 1)) * 100,
                                !.PressureUnit = "hPa"],
               pf |-> TRUE]
    ELSE [m |-> mm, pf |-> pf]

\* The A branch without its test of pressureFound (decoders.go:557-559 left out).
PressureAAlways(mm, part, pf) ==
    [m |-> [mm EXCEPT !.Pressure = Atoi(pressureRegex(part).g[1]),
                      !.PressureUnit = "inHg"],
     pf |-> TRUE]

\* decoders.go:556-567: an A group sets the pressure unless one was found
PressureA(mm, part, pf) ==
    IF pf THEN [m |-> mm, pf |-> pf]
    ELSE [m |-> [mm EXCEPT !.Pressure = Atoi(pressureRegex(part).g[1]),
                           !.PressureUnit = "inHg"],
          pf |-> TRUE]

\* Temperature and dew point taken from each other's group.
TempDewSwapped(mm, part) ==
    LET mt   == tempRegex(part)
        temp == IF mt.g[1] = "M" THEN 0 - Atoi(mt.g[2]) ELSE Atoi(mt.g[2])
        dew  == IF mt.g[3] = "M" THEN 0 - Atoi(mt.g[4]) ELSE Atoi(mt.g[4])
    IN  [mm EXCEPT !.Temperature = dew, !.DewPoint = Ptr(temp)]

\* decoders.go:510-526: temperature and dew point
TempDew(mm, part) ==
    LET mt   == tempRegex(part)
        temp == IF mt.g[1] = "M" THEN 0 - Atoi(mt.g[2]) ELSE Atoi(mt.g[2])
        dew  == IF mt.g[3] = "M" THEN 0 - Atoi(mt.g[4]) ELSE Atoi(mt.g[4])
    IN  [mm EXCEPT !.Temperature = temp, !.DewPoint = Ptr(dew)]

\* decoders.go:529-538: temperature with the dew point missing
TempOnly(mm, part) ==
    LET mt == tempOnlyRegex(part)
    IN  [mm EXCEPT !.Temperature = IF mt.g[1] = "M" THEN 0 - Atoi(mt.g[2])
                                   ELSE Atoi(mt.g[2])]

\* decoders.go:443-445: a one-character token before a token that ends in SM
SplitVisibility(ps, k, eIdx) ==
    k + 1 < eIdx /\ HasSuffix(At(ps, k + 1), "SM")
    /\ ~HasPrefix(At(ps, k), "P") /\ ~HasPrefix(At(ps, k), "M")
    /\ ~Contains(At(ps, k), "/") /\ Len(At(ps, k)) = 1

\* The weather branch keeping one copy of a repeated token.
AppendWeatherOnce(mm, part) ==
    IF \E q \in 1..Len(mm.Weather) : mm.Weather[q] = part THEN mm
    ELSE [mm EXCEPT !.Weather = Append(@, part)]

\* decoders.go:491-494: m.Weather = append(m.Weather, part)
AppendWeather(mm, part) == [mm EXCEPT !.Weather = Append(@, part)]

\* The cloud branch keeping the coverage and dropping height and type.
AppendCloudBare(mm, part) ==
    [mm EXCEPT !.Clouds = Append(@, [parseCloud(part) EXCEPT !.Height = 0, !.Type = ""])]

\* decoders.go:503-508: m.Clouds = append(m.Clouds, parseCloud(part))
AppendCloud(mm, part) == [mm EXCEPT !.Clouds = Append(@, parseCloud(part))]

\* The result of one branch: the record, the index of the last token taken,
\* pressureFound, the branch and the category the branch stands for.
Took(mm, last, pf, branch, cat) ==
    [m |-> mm, last |-> last, pf |-> pf, branch |-> branch, cat |-> cat]

\* The wind branch taking the token after the wind group whatever it is.
WindLookaheadUnchecked(ps, k, eIdx) == k + 1 < Len(ps)

\* decoders.go:428: the token after a wind group is a variation of the main body
WindLookahead(ps, k, eIdx) == k + 1 < eIdx /\ windVarRegex(At(ps, k + 1)).ok

\* decoders.go:409-577: one iteration of the main loop at cursor k
MainStep(mm, ps, k, eIdx, pf) ==
    LET part == At(ps, k)
    IN  IF part = "__PROCESSED__" THEN Took(mm, k, pf, "processed", {})
        ELSE IF specialRegex(part)
        THEN Took([mm EXCEPT !.SpecialCodes = Append(@, part)], k, pf, "special", {"special"})
        ELSE IF windRegex(part).ok
        THEN IF WindLookahead(ps, k, eIdx)
             THEN Took([mm EXCEPT !.Wind = parseWind(part),
                                  !.WindVariation = parseWindVariation(At(ps, k + 1))],
                       k + 1, pf, "wind", {"wind"})
             ELSE Took([mm EXCEPT !.Wind = parseWind(part)], k, pf, "wind", {"wind"})
        ELSE IF HasPrefix(part, "WS")
        THEN Took([mm EXCEPT !.WindShear = Append(@, parseWindShear(part))], k, pf,
                  "windshear", {"windshear"})
        ELSE IF SplitVisibility(ps, k, eIdx)
        THEN Took([mm EXCEPT !.Visibility = part \o " " \o At(ps, k + 1)], k + 1, pf,
                  "splitvis", {"visibility"})
        ELSE IF visRegexM(part).ok
        THEN Took([mm EXCEPT !.Visibility = part], k, pf, "vismiles", {"visibility"})
        ELSE IF isVisibilityInMeters(part)
        THEN Took([mm EXCEPT !.Visibility = part], k, pf, "vismeters", {"visibility"})
        ELSE IF isVerticalVisibility(part)
        THEN Took([mm EXCEPT !.VertVis = Atoi(vvRegex(part).g[1])], k, pf, "vertvis",
                  {"vertvis"})
        ELSE IF runwayClearedRegex(part).ok \/ runwayCondRegex(part).ok
        THEN Took([mm EXCEPT !.RunwayConditions = Append(@, parseRunwayCondition(part)),
                             !.RVR = Append(@, part)], k, pf, "runwaycond", {"runway"})
        ELSE IF rvrRegex(part)
        THEN Took([mm EXCEPT !.RVR = Append(@, part)], k, pf, "rvr", {"runway"})
        ELSE IF isWeatherCode(part)
        THEN Took(AppendWeather(mm, part), k, pf, "weather", {"weather"})
        ELSE IF Contains(part, "WS")
        THEN Took([mm EXCEPT !.WindShear = Append(@, parseWindShear(part))], k, pf,
                  "windshear2", {"windshear"})
        ELSE IF cloudRegex(part).ok
        THEN Took(AppendCloud(mm, part), k, pf, "cloud", {"cloud"})
        ELSE IF tempRegex(part).ok
        THEN Took(TempDew(mm, part), k, pf, "temp", {"temp"})
        ELSE IF tempOnlyRegex(part).ok
        THEN Took(TempOnly(mm, part), k, pf, "temponly", {"temp"})
        ELSE IF Len(part) > 1 /\ Ch(part, 0) = "Q"
        THEN LET r == PressureQ(mm, part, pf) IN Took(r.m, k, r.pf, "pressureQ", {"pressure"})
        ELSE IF pressureRegex(part).ok
        THEN LET r == PressureA(mm, part, pf) IN Took(r.m, k, r.pf, "pressureA", {"pressure"})
        ELSE IF cavokRegex(part)
        THEN Took([mm EXCEPT !.Visibility = "CAVOK", !.SpecialCodes = Append(@, "CAVOK")],
                  k, pf, "cavok", {"visibility", "special"})
        ELSE Took([mm EXCEPT !.Unhandled = Append(@, part)], k, pf, "unhandled",
                  {"unhandled"})

(***************************************************************************)
(* fmt.Sprintf verbs on the numbers the remarks print.  A float64 with one *)
(* (two) decimals is kept as an integer of tenths (hundredths).            *)
(***************************************************************************)
RECURSIVE Itoa(_)
\* %d
Itoa(n) ==
    IF n < 0 THEN "-" \o Itoa(0 - n)
    ELSE IF n < 10 THEN Ch("0123456789", n)
    ELSE Itoa(n \div 10) \o Ch("0123456789", n % 10)

Abs(n) == IF n < 0 THEN 0 - n ELSE n

\* %.1f of tenths / 10; negZero: the value is the float -0
Fmt1(tenths, negZero) ==
    (IF tenths < 0 \/ (tenths = 0 /\ negZero) THEN "-" ELSE "")
        \o Itoa(Abs(tenths) \div 10) \o "." \o Itoa(Abs(tenths) % 10)

\* %.1f of -(tenths / 10) when negate, of tenths / 10 otherwise
Fmt1Signed(tenths, negate) ==
    IF negate THEN Fmt1(0 - tenths, tenths = 0) ELSE Fmt1(tenths, FALSE)

\* %.2f of hundredths / 100
Fmt2(hundredths) ==
    (IF hundredths < 0 THEN "-" ELSE "")
        \o Itoa(Abs(hundredths) \div 100) \o "."
        \o Itoa((Abs(hundredths) \div 10) % 10) \o Itoa(Abs(hundredths) % 10)

\* %.1f of hundredths / 100: rounded to the nearest tenth, the sign kept
Fmt1Rounded(hundredths) ==
    (IF hundredths < 0 THEN "-" ELSE "")
        \o Itoa(((Abs(hundredths) + 5) \div 10) \div 10) \o "."
        \o Itoa(((Abs(hundredths) + 5) \div 10) % 10)

(***************************************************************************)
(* processRemarks (unnamed/part_000:1809-2253)                             *)
(***************************************************************************)
remarkCodes ==
    [AO1    |-> "automated station without precipitation sensor",
     AO2    |-> "automated station with precipitation sensor",
     AO1A   |-> "automated station without precipitation sensor",
     AO2A   |-> "automated station with precipitation sensor",
     SLP    |-> "sea level pressure",
     RMK    |-> "remarks indicator",
     PRESRR |-> "pressure rising rapidly",
     PRESFR |-> "pressure falling rapidly",
     NOSIG  |-> "no significant changes expected",
     TEMPO  |-> "temporary",
     BECMG  |-> "becoming",
     VIRGA  |-> "precipitation not reaching ground",
     FROPA  |-> "frontal passage"]

\* the map lookup remarkCodes[part], "$" included
RemarkCode(part) ==
    IF part = "$" THEN [ok |-> TRUE, desc |-> "weather observing equipment requires maintenance"]
    ELSE IF part \in DOMAIN remarkCodes THEN [ok |-> TRUE, desc |-> remarkCodes[part]]
    ELSE [ok |-> FALSE, desc |-> ""]

precipitationTypes ==
    [RA |-> "rain", SN |-> "snow", DZ |-> "drizzle", GR |-> "hail", GS |-> "small hail",
     PE |-> "ice pellets", IC |-> "ice crystals", PL |-> "ice pellets",
     SG |-> "snow grains", TS |-> "thunderstorm", FG |-> "fog", FU |-> "smoke",
     VA |-> "volcanic ash", DU |-> "dust", SA |-> "sand", HZ |-> "haze", PY |-> "spray",
     BR |-> "mist", SHSN |-> "snow shower", SHRA |-> "rain shower",
     SHPE |-> "ice pellet shower", SHPL |-> "ice pellet shower",
     SHGR |-> "hail shower", SHGS |-> "small hail shower"]

\* ^PK\s+WND\s+(\d{3})(\d{2,3})/(\d{2})(\d{2})$
pkWindRegex(s) ==
    LET n1 == SpaceRun(s, 2)
        a  == SliceFrom(s, 2 + n1)
        n2 == SpaceRun(a, 3)
        b  == SliceFrom(a, 3 + n2)
        n  == DigitRun(b, 0)
    IN  IF HasPrefix(s, "PK") /\ n1 >= 1 /\ HasPrefix(a, "WND") /\ n2 >= 1
           /\ n \in {5, 6} /\ Ch(b, n) = "/" /\ Len(b) = n + 5 /\ IsDigits(SliceFrom(b, n + 1))
        THEN Match(<<Slice(b, 0, 3), Slice(b, 3, n), Slice(b, n + 1, n + 3),
                     Slice(b, n + 3, n + 5)>>)
        ELSE NoMatch

\* ^(RA|SN|...|SHGS)(B|E)(\d{2})$
precipBERegex(s) ==
    LET ph == Slice(s, 0, Len(s) - 3)
    IN  IF Len(s) >= 5 /\ ph \in DOMAIN precipitationTypes
           /\ Ch(s, Len(s) - 3) \in {"B", "E"} /\ IsDigits(SliceFrom(s, Len(s) - 2))
        THEN Match(<<ph, Ch(s, Len(s) - 3), SliceFrom(s, Len(s) - 2)>>)
        ELSE NoMatch

\* ^T(\d)(\d{3})(\d)(\d{3})$
tempDetailedRegex(s) ==
    IF Len(s) = 9 /\ Ch(s, 0) = "T" /\ IsDigits(SliceFrom(s, 1))
    THEN Match(<<Ch(s, 1), Slice(s, 2, 5), Ch(s, 5), Slice(s, 6, 9)>>)
    ELSE NoMatch

\* ^P(\d{4})$
precRegex(s) ==
    IF Len(s) = 5 /\ Ch(s, 0) = "P" /\ IsDigits(SliceFrom(s, 1))
    THEN Match(<<SliceFrom(s, 1)>>)
    ELSE NoMatch

Remark(rawStr, desc) == [Raw |-> rawStr, Description |-> desc]

\* A branch that leaves the cursor on the last token it took.
RemShort(rawStr, desc, n) == [remark |-> Remark(rawStr, desc), n |-> n - 1]

\* One branch's result: the remark and the number of tokens it took.
Rem(rawStr, desc, n) == [remark |-> Remark(rawStr, desc), n |-> n]

\* The implied 9 taken above 500 only (slp > 500).
SeaLevelPressureAbove(part) ==
    LET slpValue == SliceFrom(part, 3)
        slp      == Atoi(slpValue)
        prefix   == IF slp > 500 THEN 9000 ELSE 10000
    IN  IF AtoiOk(slpValue)
        THEN Rem(part, "sea level pressure " \o Fmt1(prefix + slp, FALSE) \o " hPa", 1)
        ELSE Rem(part, "sea level pressure (invalid format)", 1)

\* part_000:1913-1936: SLPnnn, tenths of hPa with an implied 9 or 10 in front
SeaLevelPressure(part) ==
    LET slpValue == SliceFrom(part, 3)
        slp      == Atoi(slpValue)
        prefix   == IF slp >= 500 THEN 9000 ELSE 10000
    IN  IF AtoiOk(slpValue)
        THEN Rem(part, "sea level pressure " \o Fmt1(prefix + slp, FALSE) \o " hPa", 1)
        ELSE Rem(part, "sea level pressure (invalid format)", 1)

\* part_000:1938-1967: Tsnnnsnnn, temperature and dew point in tenths
DetailedTemperature(part) ==
    LET mt == tempDetailedRegex(part)
    IN  Rem(part, "temperature " \o Fmt1Signed(Atoi(mt.g[2]), mt.g[1] = "1")
                  \o "°C, dew point " \o Fmt1Signed(Atoi(mt.g[4]), mt.g[3] = "1") \o "°C", 1)

\* part_000:2007-2044: 4snnnsnnn, with the Fahrenheit values (C * 9 / 5 + 32)
Temperature24h(part) ==
    LET maxC == IF Slice(part, 1, 2) = "1" THEN 0 - Atoi(Slice(part, 2, 5))
                ELSE Atoi(Slice(part, 2, 5))
        minC == IF Slice(part, 5, 6) = "1" THEN 0 - Atoi(Slice(part, 6, 9))
                ELSE Atoi(Slice(part, 6, 9))
    IN  Rem(part,
            "24-hour temperature range: max "
              \o Fmt1Signed(Atoi(Slice(part, 2, 5)), Slice(part, 1, 2) = "1")
              \o "°C (" \o Fmt1Rounded(maxC * 18 + 3200) \o "°F), min "
              \o Fmt1Signed(Atoi(Slice(part, 6, 9)), Slice(part, 5, 6) = "1")
              \o "°C (" \o Fmt1Rounded(minC * 18 + 3200) \o "°F)", 1)

tendencyDesc(code) ==
    CASE code = "0" -> "increasing, then decreasing"
      [] code = "1" -> "increasing, then steady"
      [] code = "2" -> "increasing steadily"
      [] code = "3" -> "increasing, then increasing more rapidly"
      [] code = "4" -> "steady"
      [] code = "5" -> "decreasing, then increasing"
      [] code = "6" -> "decreasing, then steady"
      [] code = "7" -> "decreasing steadily"
      [] code = "8" -> "decreasing, then decreasing more rapidly"
      [] OTHER -> "unknown"

\* part_000:2143-2165: the hours map has the keys '1', '3' and '6'
IceAccretion(part) ==
    LET hourDigit == Ch(part, 1)
        timeframe == CASE hourDigit = "1" -> "1-hour"
                       [] hourDigit = "3" -> "3-hour"
                       [] hourDigit = "6" -> "6-hour"
                       [] OTHER -> ""
    IN  Rem(part, timeframe \o " ice accretion: " \o Fmt2(Atoi(SliceFrom(part, 2)))
                  \o " inches", 1)

recentWeather ==
    [RA |-> "rain", SN |-> "snow", GR |-> "hail", GS |-> "small hail",
     TS |-> "thunderstorm", FG |-> "fog", SQ |-> "squall", FC |-> "funnel cloud"]

\* Number of "/" in s.
SlashCount(s) == Cardinality({k \in 0..(Len(s) - 1) : Ch(s, k) = "/"})

\* Position of the first "/" of s.
SlashAt(s) == Min({k \in 0..(Len(s) - 1) : Ch(s, k) = "/"})

\* The peak-wind branch stepping over two of its three tokens (i += 2).
PeakWindTokensShort == 3 - 1

\* Number of tokens the peak-wind branch takes.
PeakWindTokens == 3

\* part_000:1832-2250: one iteration of the loop at cursor k
RemarkStep(rp, k) ==
    LET part   == At(rp, k)
        joined == Join(SubSeq(rp, k + 1, k + 3), " ")
        next   == At(rp, k + 1)
    IN  IF HasPrefix(part, "PK") /\ k + 2 < Len(rp) /\ pkWindRegex(joined).ok
        THEN LET g == pkWindRegex(joined).g
             IN  Rem(joined, "peak wind " \o g[1] \o "° at " \o g[2] \o " knots at "
                             \o g[3] \o ":" \o g[4], PeakWindTokens)
        ELSE IF precipBERegex(part).ok
        THEN LET g == precipBERegex(part).g
             IN  Rem(part, precipitationTypes[g[1]] \o " "
                           \o (IF g[2] = "E" THEN "ended" ELSE "began") \o " at "
                           \o Itoa(Atoi(g[3])) \o " minutes past the hour", 1)
        ELSE IF HasPrefix(part, "SLP") THEN SeaLevelPressure(part)
        ELSE IF tempDetailedRegex(part).ok THEN DetailedTemperature(part)
        ELSE IF Len(part) = 5 /\ Ch(part, 0) = "1" /\ AtoiOk(SliceFrom(part, 2))
        THEN Rem(part, "6-hour maximum temperature "
                       \o Fmt1Signed(Atoi(SliceFrom(part, 2)), Ch(part, 1) = "1") \o "°C", 1)
        ELSE IF Len(part) = 5 /\ Ch(part, 0) = "2" /\ AtoiOk(SliceFrom(part, 2))
        THEN Rem(part, "6-hour minimum temperature "
                       \o Fmt1Signed(Atoi(SliceFrom(part, 2)), Ch(part, 1) = "1") \o "°C", 1)
        ELSE IF Len(part) = 9 /\ Ch(part, 0) = "4" /\ AtoiOk(Slice(part, 2, 5))
                /\ AtoiOk(Slice(part, 6, 9))
        THEN Temperature24h(part)
        ELSE IF Len(part) = 5 /\ Ch(part, 0) = "3" /\ AtoiOk(SliceFrom(part, 1))
        THEN Rem(part, "3-hour pressure change: " \o Fmt1(Atoi(SliceFrom(part, 1)), FALSE)
                       \o " hPa", 1)
        ELSE IF Len(part) = 5 /\ Ch(part, 0) = "5" /\ AtoiOk(SliceFrom(part, 2))
        THEN Rem(part, "pressure tendency: " \o tendencyDesc(Ch(part, 1)) \o ", "
                       \o Fmt1(Atoi(SliceFrom(part, 2)), FALSE) \o " hPa change", 1)
        ELSE IF precRegex(part).ok
        THEN Rem(part, "precipitation of " \o Fmt2(Atoi(precRegex(part).g[1]))
                       \o " inches in the last hour", 1)
        ELSE IF Len(part) = 5 /\ Ch(part, 0) = "7" /\ AtoiOk(SliceFrom(part, 1))
        THEN Rem(part, "24-hour precipitation: " \o Fmt2(Atoi(SliceFrom(part, 1)))
                       \o " inches", 1)
        ELSE IF HasPrefix(part, "4/") /\ Len(part) = 5 /\ AtoiOk(SliceFrom(part, 2))
        THEN Rem(part, "snow depth: " \o Itoa(Atoi(SliceFrom(part, 2))) \o " inches", 1)
        ELSE IF Len(part) = 5 /\ Ch(part, 0) = "I" /\ Ch(part, 1) \in {"1", "2", "3"}
                /\ AtoiOk(SliceFrom(part, 2))
        THEN IceAccretion(part)
        ELSE IF HasPrefix(part, "RE") /\ Len(part) >= 4
        THEN IF SliceFrom(part, 2) \in DOMAIN recentWeather
             THEN Rem(part, "recent " \o recentWeather[SliceFrom(part, 2)], 1)
             ELSE Rem(part, "recent weather phenomenon", 1)
        ELSE IF HasPrefix(part, "R") /\ Contains(part, "/")
        THEN Rem(part, "runway visual range information", 1)
        ELSE IF part = "SNINCR" /\ k + 1 < Len(rp) /\ SlashCount(next) = 1
        THEN Rem(part \o " " \o next,
                 "snow increasing rapidly: " \o Slice(next, 0, SlashAt(next))
                   \o " inch within " \o SliceFrom(next, SlashAt(next) + 1) \o " hour", 2)
        ELSE IF part = "CIG" /\ k + 1 < Len(rp) /\ AtoiOk(next)
        THEN Rem(part \o " " \o next,
                 "variable ceiling height: " \o Itoa(Atoi(next) * 100) \o " feet", 2)
        ELSE IF RemarkCode(part).ok THEN Rem(part, RemarkCode(part).desc, 1)
        ELSE Rem(part, "unknown remark code", 1)

(***************************************************************************)
(* DecodeTAF (decoders.go:11-270)                                          *)
(***************************************************************************)
\* strings.TrimSpace
RECURSIVE TrimLeft(_)
TrimLeft(s) == IF Len(s) > 0 /\ Ch(s, 0) \in Whitespace THEN TrimLeft(SliceFrom(s, 1)) ELSE s

RECURSIVE TrimRight(_)
TrimRight(s) ==
    IF Len(s) > 0 /\ Ch(s, Len(s) - 1) \in Whitespace
    THEN TrimRight(Slice(s, 0, Len(s) - 1)) ELSE s

TrimSpace(s) == TrimRight(TrimLeft(s))

\* regexp.MustCompile(`\s+`).ReplaceAllString(s, " ")
RECURSIVE CollapseFrom(_, _, _)
CollapseFrom(s, pos, acc) ==
    IF pos >= Len(s) THEN acc
    ELSE IF Ch(s, pos) \in Whitespace
         THEN CollapseFrom(s, NextAt(s, pos, FALSE), acc \o " ")
         ELSE CollapseFrom(s, NextAt(s, pos, TRUE),
                           acc \o Slice(s, pos, NextAt(s, pos, TRUE)))

CleanRawTrimOnly(s) == TrimSpace(s)

\* decoders.go:15-16
CleanRaw(s) == CollapseFrom(TrimSpace(s), 0, "")

\* decoders.go:20: too short to hold a station, a time and a validity group
ShortTAF(ps) == Len(ps) < 3

\* decoders.go:74-76, 144-146: the token opens a change group
IsChangeIndicator(p) ==
    p = "FM" \/ HasPrefix(p, "FM") \/ p = "BECMG" \/ p = "TEMPO" \/ HasPrefix(p, "PROB")

\* decoders.go:48-59, 166-177, 216-227: DDHH/DDHH in the current month
Interval(mt, tnow) ==
    [From |-> Date(tnow.Y, tnow.Mo, Atoi(mt.g[1]), Atoi(mt.g[2]), 0),
     To   |-> Date(tnow.Y, tnow.Mo, Atoi(mt.g[3]), Atoi(mt.g[4]), 0)]

\* decoders.go:40-62: issue time and validity, from cursor k
RECURSIVE TafHeader(_, _, _, _)
TafHeader(tt, ps, k, tnow) ==
    IF k >= Len(ps) THEN tt
    ELSE IF timeRegex(At(ps, k)).ok
         THEN TafHeader(IF parseTime(At(ps, k), tnow).err THEN tt
                        ELSE [tt EXCEPT !.Time = parseTime(At(ps, k), tnow).time],
                        ps, k + 1, tnow)
    ELSE IF validRegex(At(ps, k)).ok
         THEN [tt EXCEPT !.ValidFrom = Interval(validRegex(At(ps, k)), tnow).From,
                         !.ValidTo = Interval(validRegex(At(ps, k)), tnow).To]
    ELSE TafHeader(tt, ps, k + 1, tnow)

\* decoders.go:72-84: the first change indicator; len(parts) when there is none
FindChangeIndex(ps) ==
    LET hits == {k \in 0..(Len(ps) - 1) : IsChangeIndicator(At(ps, k))}
    IN  IF hits = {} THEN Len(ps) ELSE Min(hits)

\* regexp.MustCompile(`\d{4}/\d{4}`), not anchored
validTimeRegex(s) ==
    \E k \in 0..(Len(s) - 9) : IsDigits(Slice(s, k, k + 4)) /\ Ch(s, k + 4) = "/"
                               /\ IsDigits(Slice(s, k + 5, k + 9))

\* decoders.go:87-96: the elements of the base forecast, from cursor k
RECURSIVE BaseElements(_, _, _, _)
BaseElements(f, ps, k, changeIndex) ==
    IF k >= changeIndex THEN f
    ELSE IF timeRegex(At(ps, k)).ok \/ validTimeRegex(At(ps, k))
         THEN BaseElements(f, ps, k + 1, changeIndex)
    ELSE BaseElements(parseForecastElement(f, At(ps, k)), ps, k + 1, changeIndex)

\* decoders.go:140-151: the elements of a change group, up to the next indicator
RECURSIVE GroupElements(_, _, _)
GroupElements(f, ps, k) ==
    IF k >= Len(ps) \/ IsChangeIndicator(At(ps, k)) THEN [f |-> f, i |-> k]
    ELSE GroupElements(parseForecastElement(f, At(ps, k)), ps, k + 1)

\* decoders.go:136-138, 265-267: fill the last forecast's To when it is zero
FillLastTo(fs, tm) ==
    IF Len(fs) > 0 /\ IsZero(fs[Len(fs)].To) THEN [fs EXCEPT ![Len(fs)].To = tm] ELSE fs

\* decoders.go:111-133: the start of an FM group; zero unless the time has six characters
FmFrom(fmTime, tnow) ==
    LET day  == Atoi(Slice(fmTime, 0, 2))
        from == Date(tnow.Y, tnow.Mo, day, Atoi(Slice(fmTime, 2, 4)), Atoi(Slice(fmTime, 4, 6)))
    IN  IF Len(fmTime) # 6 THEN ZeroTime
        ELSE IF tnow.D > day THEN AddMonths(from, 1) ELSE from

\* decoders.go:105-155: an FM group at cursor k
FmGroup(tt, ps, k, tnow) ==
    LET Group(from, body) ==
            [t |-> [tt EXCEPT !.Forecasts = Append(FillLastTo(@, from), body.f)],
             i |-> body.i]
        Started(f0, k1) == Group(f0.From, GroupElements(f0, ps, k1 + 1))
        Timed(fmTime, k1) ==
            Started([NewForecast("FM", At(ps, k)) EXCEPT !.From = FmFrom(fmTime, tnow)], k1)
    IN  IF At(ps, k) = "FM" /\ k + 1 < Len(ps) THEN Timed(At(ps, k + 1), k + 1)
        ELSE Timed(SliceFrom(At(ps, k), 2), k)

\* decoders.go:163-180, 213-230: the optional interval after a BECMG, TEMPO or PROB token
WithInterval(f, ps, k, tnow) ==
    LET Set(iv) == [f |-> [f EXCEPT !.From = iv.From, !.To = iv.To], i |-> k + 1]
    IN  IF k < Len(ps) /\ validRegex(At(ps, k)).ok
        THEN Set(Interval(validRegex(At(ps, k)), tnow))
        ELSE [f |-> f, i |-> k]

\* decoders.go:157-196: a BECMG or TEMPO group at cursor k
BecmgTempoGroup(tt, ps, k, tnow) ==
    LET Group(body) == [t |-> [tt EXCEPT !.Forecasts = Append(@, body.f)], i |-> body.i]
        Started(iv) == Group(GroupElements(iv.f, ps, iv.i))
    IN  Started(WithInterval(NewForecast(At(ps, k), At(ps, k)), ps, k + 1, tnow))

\* A PROB group without an interval taking the TAF's validity window.
InheritValidity(f, tt) ==
    IF ~IsZero(f.From) THEN f ELSE [f EXCEPT !.From = tt.ValidFrom, !.To = tt.ValidTo]

\* decoders.go:232-243: a PROB group without an interval takes the last forecast's
InheritPeriod(f, tt) ==
    IF ~IsZero(f.From) THEN f
    ELSE IF Len(tt.Forecasts) > 0
         THEN [f EXCEPT !.From = tt.Forecasts[Len(tt.Forecasts)].From,
                        !.To = tt.Forecasts[Len(tt.Forecasts)].To]
    ELSE [f EXCEPT !.From = tt.ValidFrom, !.To = tt.ValidTo]

\* decoders.go:198-259: a PROB group at cursor k
ProbGroup(tt, ps, k, tnow) ==
    LET part == At(ps, k)
        Group(body) == [t |-> [tt EXCEPT !.Forecasts = Append(@, body.f)], i |-> body.i]
        Started(iv) == Group(GroupElements(InheritPeriod(iv.f, tt), ps, iv.i))
    IN  IF ~AtoiOk(SliceFrom(part, 4)) THEN [t |-> tt, i |-> k + 1]
        ELSE Started(WithInterval([NewForecast(part, part) EXCEPT
                                     !.Probability = Atoi(SliceFrom(part, 4))],
                                  ps, k + 1, tnow))

\* decoders.go:102-262: one iteration of the change-group loop at cursor k
TafStep(tt, ps, k, tnow) ==
    LET part == At(ps, k)
    IN  IF part = "FM" \/ HasPrefix(part, "FM") THEN FmGroup(tt, ps, k, tnow)
        ELSE IF part = "BECMG" \/ part = "TEMPO" THEN BecmgTempoGroup(tt, ps, k, tnow)
        ELSE IF HasPrefix(part, "PROB") THEN ProbGroup(tt, ps, k, tnow)
        ELSE [t |-> tt, i |-> k + 1]

(***************************************************************************)
(* The decode calls as state machines.  trace is a history variable: one   *)
(* entry per loop iteration, with the cursor (idx), the number of tokens   *)
(* taken (n), the branch taken, the category the branch stands for (cat)   *)
(* and the categories whose fields the iteration changed (wrote).          *)
(***************************************************************************)
\* definitions.go:243-262: the fields of METAR that hold each category
CategoryFields ==
    [wind       |-> {"Wind", "WindVariation"},
     windshear  |-> {"WindShear"},
     visibility |-> {"Visibility"},
     vertvis    |-> {"VertVis"},
     runway     |-> {"RunwayConditions", "RVR"},
     weather    |-> {"Weather"},
     cloud      |-> {"Clouds"},
     temp       |-> {"Temperature", "DewPoint"},
     pressure   |-> {"Pressure", "PressureUnit"},
     special    |-> {"SpecialCodes"},
     unhandled  |-> {"Unhandled"}]

\* The categories with a field that differs between the records a and b.
Written(a, b) ==
    {c \in DOMAIN CategoryFields : \E f \in CategoryFields[c] : a[f] # b[f]}

\* decoders.go:323-378: split the report, station, time and the section indices
MetarStart ==
    /\ pc = "start" /\ kind = "METAR"
    /\ UNCHANGED cli
    /\ \E ps \in {Fields(raw)} :
           /\ parts' = ps
           /\ IF ShortMETAR(ps)
              THEN /\ m' = NewMETAR(raw)
                   /\ pc' = "done"
                   /\ UNCHANGED <<i, endIndex, rmkIndex, pressureFound, panicked>>
              ELSE IF ~InRange(ps, 0) \/ ~InRange(ps, 1)
              THEN /\ panicked' = TRUE
                   /\ pc' = "panic"
                   /\ UNCHANGED <<m, i, endIndex, rmkIndex, pressureFound>>
              ELSE /\ m' = [NewMETAR(raw) EXCEPT
                              !.Station = At(ps, 0),
                              !.SiteInfo = [Name |-> At(ps, 0), State |-> "", Country |-> ""],
                              !.Time = MetarTime(ps, now)]
                   /\ rmkIndex' = FindRmkIndex(ps)
                   /\ endIndex' = FindEndIndex(ps)
                   /\ pressureFound' = FALSE
                   /\ i' = 2
                   /\ pc' = "prepass"
                   /\ UNCHANGED panicked
    /\ trace' = <<>>
    /\ UNCHANGED <<now, raw, kind, call, first, t, remarkParts, remarks>>

\* decoders.go:380-407: mark the split wind shear groups of the main body
MetarPrePass ==
    /\ pc = "prepass"
    /\ UNCHANGED cli
    /\ \E st \in {PrePassFrom([parts |-> parts, ws |-> m.WindShear, trace |-> trace],
                                 2, endIndex)} :
           /\ parts' = st.parts
           /\ m' = [m EXCEPT !.WindShear = st.ws]
           /\ trace' = st.trace
    /\ i' = 2
    /\ pc' = "main"
    /\ UNCHANGED <<now, raw, kind, call, first, endIndex, rmkIndex, pressureFound, t,
                   remarkParts, remarks, panicked>>

\* decoders.go:409-577: one iteration of the main loop
MetarMain ==
    /\ pc = "main" /\ i < endIndex
    /\ UNCHANGED cli
    /\ \E r \in {MainStep(m, parts, i, endIndex, pressureFound)} :
           /\ m' = r.m
           /\ pressureFound' = r.pf
           /\ i' = r.last + 1
           /\ trace' = Append(trace, [idx |-> i, n |-> r.last - i + 1,
                                      branch |-> r.branch, cat |-> r.cat,
                                      wrote |-> Written(m, r.m)])
           /\ panicked' = (panicked \/ ~InRange(parts, r.last))
    /\ UNCHANGED <<now, raw, kind, pc, call, first, parts, endIndex, rmkIndex, t,
                   remarkParts, remarks>>

\* decoders.go:579-584: hand the tokens after RMK to processRemarks, or return
MetarEndMain ==
    /\ pc = "main" /\ i >= endIndex
    /\ UNCHANGED cli
    /\ IF rmkIndex # 0 - 1 /\ rmkIndex + 1 < Len(parts)
       THEN /\ remarkParts' = TokensFrom(parts, rmkIndex + 1)
            /\ remarks' = <<>>
            /\ i' = 0
            /\ pc' = "remarks"
       ELSE /\ pc' = "done"
            /\ UNCHANGED <<remarkParts, remarks, i>>
    /\ UNCHANGED <<now, raw, kind, call, first, parts, endIndex, rmkIndex, pressureFound,
                   m, t, trace, panicked>>

\* part_000:1809-1831: processRemarks called on its own
RemarksStart ==
    /\ pc = "start" /\ kind = "RMK"
    /\ UNCHANGED cli
    /\ remarks' = <<>>
    /\ i' = 0
    /\ trace' = <<>>
    /\ pc' = "remarks"
    /\ UNCHANGED <<now, raw, kind, call, first, parts, endIndex, rmkIndex, pressureFound,
                   m, t, remarkParts, panicked>>

\* part_000:1832-2250: one iteration of the remarks loop
RemarksLoop ==
    /\ pc = "remarks" /\ i < Len(remarkParts)
    /\ UNCHANGED cli
    /\ \E r \in {RemarkStep(remarkParts, i)} :
           /\ remarks' = Append(remarks, r.remark)
           /\ i' = i + r.n
           /\ trace' = Append(trace, [idx |-> i, n |-> r.n, branch |-> "remark", cat |-> {},
                                      wrote |-> {}])
    /\ UNCHANGED <<now, raw, kind, pc, call, first, parts, endIndex, rmkIndex,
                   pressureFound, m, t, remarkParts, panicked>>

\* part_000:2252, decoders.go:581: processRemarks returns
RemarksReturn ==
    /\ pc = "remarks" /\ i >= Len(remarkParts)
    /\ UNCHANGED cli
    /\ m' = IF kind = "METAR" THEN [m EXCEPT !.Remarks = remarks] ELSE m
    /\ pc' = "done"
    /\ UNCHANGED <<now, raw, kind, call, first, parts, i, endIndex, rmkIndex,
                   pressureFound, t, remarkParts, remarks, trace, panicked>>

\* decoders.go:11-98: split the forecast, header, base forecast
TafStart ==
    /\ pc = "start" /\ kind = "TAF"
    /\ UNCHANGED cli
    /\ \E cleanedRaw \in {CleanRaw(raw)} :
       \E ps \in {Fields(cleanedRaw)} :
       \E startIdx \in {IF At(ps, 0) = "TAF" THEN 1 ELSE 0} :
       \E change \in {FindChangeIndex(ps)} :
       \E t1 \in {TafHeader([NewTAF(raw) EXCEPT
                               !.Station = At(ps, startIdx),
                               !.SiteInfo = [Name |-> At(ps, startIdx), State |-> "",
                                             Country |-> ""]],
                            ps, startIdx + 1, now)} :
       \E base \in {[NewForecast("BASE", cleanedRaw) EXCEPT !.From = t1.ValidFrom]} :
           /\ parts' = ps
           /\ IF ShortTAF(ps)
              THEN /\ t' = NewTAF(raw)
                   /\ pc' = "done"
                   /\ UNCHANGED <<i, panicked>>
              ELSE IF ~InRange(ps, startIdx)
              THEN /\ panicked' = TRUE
                   /\ pc' = "panic"
                   /\ UNCHANGED <<t, i>>
              ELSE /\ t' = [t1 EXCEPT !.Forecasts =
                              <<IF change > 0
                                THEN BaseElements(base, ps, startIdx + 1, change)
                                ELSE base>>]
                   /\ i' = change
                   /\ pc' = "groups"
                   /\ UNCHANGED panicked
    /\ trace' = <<>>
    /\ UNCHANGED <<now, raw, kind, call, first, endIndex, rmkIndex, pressureFound, m,
                   remarkParts, remarks>>

\* decoders.go:100-262: one iteration of the change-group loop
TafLoop ==
    /\ pc = "groups" /\ i < Len(parts)
    /\ UNCHANGED cli
    /\ \E r \in {TafStep(t, parts, i, now)} :
           /\ t' = r.t
           /\ i' = r.i
           /\ trace' = Append(trace, [idx |-> i, n |-> r.i - i, branch |-> "group",
                                      cat |-> {}, wrote |-> {}])
    /\ UNCHANGED <<now, raw, kind, pc, call, first, parts, endIndex, rmkIndex,
                   pressureFound, m, remarkParts, remarks, panicked>>

\* decoders.go:264-269: the last forecast ends with the validity, return
TafFinish ==
    /\ pc = "groups" /\ i >= Len(parts)
    /\ UNCHANGED cli
    /\ t' = [t EXCEPT !.Forecasts = FillLastTo(@, t.ValidTo)]
    /\ pc' = "done"
    /\ UNCHANGED <<now, raw, kind, call, first, parts, i, endIndex, rmkIndex,
                   pressureFound, m, remarkParts, remarks, trace, panicked>>

\* The record the finished call returned.
Returned == IF kind = "TAF" THEN t ELSE IF kind = "METAR" THEN m ELSE remarks

\* The caller decodes the same string a second time.
DecodeAgain ==
    /\ pc = "done" /\ call = 1
    /\ UNCHANGED cli
    /\ first' = Returned
    /\ call' = 2
    /\ pc' = "start"
    /\ UNCHANGED <<now, raw, kind, parts, i, endIndex, rmkIndex, pressureFound, m, t,
                   remarkParts, remarks, trace, panicked>>

\* The caller decodes the same forecast text again, every run of white space
\* replaced by one space.
DecodeCollapsed ==
    /\ pc = "done" /\ call = 1 /\ kind = "TAF"
    /\ UNCHANGED cli
    /\ first' = Returned
    /\ raw' = CollapseFrom(raw, 0, "")
    /\ call' = 2
    /\ pc' = "start"
    /\ UNCHANGED <<now, kind, parts, i, endIndex, rmkIndex, pressureFound, m, t,
                   remarkParts, remarks, trace, panicked>>

(***************************************************************************)
(* The command-line program: main, readFromStdin, processMETAR and         *)
(* processTAF.  cli.calls keeps, in order, the functions the run called.   *)
(***************************************************************************)
decoderVars == <<now, raw, kind, pc, call, first, parts, i, endIndex, rmkIndex,
                 pressureFound, m, t, remarkParts, remarks, trace, panicked>>

\* The text of s before its first line break.
FirstLine(s) ==
    LET hits == {k \in 0..(Len(s) - 1) : Ch(s, k) = "\n"}
    IN  IF hits = {} THEN s ELSE Slice(s, 0, Min(hits))

\* interactors.go:44-51: the piped text is taken for a TAF
DetectTAF(rawInput) ==
    \/ HasPrefix(TrimSpace(FirstLine(rawInput)), "TAF")
    \/ Contains(rawInput, "TEMPO")
    \/ Contains(rawInput, "BECMG")
    \/ Contains(rawInput, "PROB")
    \/ validTimeRegex(rawInput)

\* interactors.go:12-63: station code, text, whether data was piped, whether
\* it is taken for a TAF
readFromStdin(piped, input) ==
    LET none == [stationCode |-> "", rawInput |-> "", stdinHasData |-> FALSE,
                 isTAF |-> FALSE]
        Read(rawInput, ps) ==
            IF rawInput = "" \/ Len(ps) = 0 THEN none
            ELSE [stationCode |-> IF ps[1] = "TAF" /\ Len(ps) > 1 THEN ps[2] ELSE ps[1],
                  rawInput |-> rawInput, stdinHasData |-> TRUE,
                  isTAF |-> DetectTAF(rawInput)]
    IN  IF ~piped THEN none
        ELSE Read(TrimSpace(input), Fields(FirstLine(TrimSpace(input))))

Called(c, name) == [c EXCEPT !.calls = Append(@, name)]

\* The station the arguments or the prompt name, and what the network returns.
ArgStation == "KSFO"
FetchedMETAR == {"", "KSFO 071756Z 28015G25KT 10SM FEW008 BKN200 16/10 A2999 RMK AO2 SLP156"}
FetchedTAF == {"", "TAF KBOS 110547Z 1106/1212 14012KT P6SM FM111200 18010KT"}

\* processMETAR and processTAFData once the raw text is there: decode it
\* unless -no-decode is given, then go on at nxt.
Process(c, which, text, nxt) ==
    IF c.noDecode
    THEN /\ cli' = [c EXCEPT !.pc = nxt]
         /\ UNCHANGED decoderVars
    ELSE /\ cli' = [Called(c, "Decode" \o which) EXCEPT !.pc = "decoding", !.next = nxt]
         /\ kind' = which
         /\ raw' = text
         /\ pc' = "start"
         /\ UNCHANGED <<now, call, first, parts, i, endIndex, rmkIndex, pressureFound,
                        m, t, remarkParts, remarks, trace, panicked>>

\* main: flags, readFromStdin, the station code
CliStart ==
    /\ cli.pc = "main"
    /\ \E r \in {readFromStdin(cli.piped, cli.input)} :
       \E err \in BOOLEAN :
           cli' = IF r.stdinHasData
                  THEN [cli EXCEPT !.stationCode = r.stationCode,
                                   !.rawInput = r.rawInput,
                                   !.stdinHasData = TRUE,
                                   !.isStdinTAF = r.isTAF,
                                   !.pc = "siteinfo"]
                  ELSE [cli EXCEPT !.calls = IF cli.nearest THEN <<"ProcessAutoCommand">>
                                             ELSE <<>>,
                                   !.stationCode = IF err THEN "" ELSE ArgStation,
                                   !.pc = IF err THEN "exit" ELSE "siteinfo"]
    /\ UNCHANGED decoderVars

\* main: site information, unless -no-decode is given
CliSiteInfo ==
    /\ cli.pc = "siteinfo"
    /\ \E err \in BOOLEAN :
       \E nxt \in {IF cli.stdinHasData THEN "stdin" ELSE "web"} :
           cli' = IF cli.noDecode THEN [cli EXCEPT !.pc = nxt]
                  ELSE [Called(cli, "FetchSiteInfo") EXCEPT !.siteInfoFetched = ~err,
                                                            !.pc = nxt]
    /\ UNCHANGED decoderVars

\* main: piped data goes to one decoder
CliStdin ==
    /\ cli.pc = "stdin"
    /\ \E err \in BOOLEAN :
       \E c \in {IF cli.offline /\ ~cli.siteInfoFetched
                 THEN [Called(cli, "LoadEmbeddedStationInfo") EXCEPT
                          !.siteInfoFetched = ~err]
                 ELSE cli} :
           IF cli.tafOnly \/ (cli.isStdinTAF /\ ~cli.metarOnly)
           THEN Process(Called(c, "processTAF"), "TAF", cli.rawInput, "exit")
           ELSE IF cli.metarOnly \/ ~cli.isStdinTAF
           THEN Process(Called(c, "processMETAR"), "METAR", cli.rawInput, "exit")
           ELSE /\ cli' = [c EXCEPT !.pc = "exit"]
                /\ UNCHANGED decoderVars

\* main without piped data: processMETAR unless -taf is given
CliWebMETAR ==
    /\ cli.pc = "web"
    /\ IF cli.tafOnly
       THEN /\ cli' = [cli EXCEPT !.pc = "webtaf"]
            /\ UNCHANGED decoderVars
       ELSE IF cli.offline
       THEN /\ cli' = [Called(cli, "processMETAR") EXCEPT !.pc = "webtaf"]
            /\ UNCHANGED decoderVars
       ELSE \E res \in FetchedMETAR :
            \E c \in {Called(Called(cli, "processMETAR"), "FetchMETAR")} :
                IF res = ""
                THEN /\ cli' = [c EXCEPT !.pc = "webtaf"]
                     /\ UNCHANGED decoderVars
                ELSE Process(c, "METAR", res, "webtaf")

\* main without piped data: processTAF unless -metar is given
CliWebTAF ==
    /\ cli.pc = "webtaf"
    /\ IF cli.metarOnly
       THEN /\ cli' = [cli EXCEPT !.pc = "exit"]
            /\ UNCHANGED decoderVars
       ELSE IF cli.offline
       THEN /\ cli' = [Called(cli, "processTAF") EXCEPT !.pc = "exit"]
            /\ UNCHANGED decoderVars
       ELSE \E res \in FetchedTAF :
            \E c \in {Called(Called(cli, "processTAF"), "FetchTAF")} :
                IF res = ""
                THEN /\ cli' = [c EXCEPT !.pc = "exit"]
                     /\ UNCHANGED decoderVars
                ELSE Process(c, "TAF", res, "exit")

\* The decoder returns to processMETAR or processTAF, which prints and returns.
CliReturn ==
    /\ cli.pc = "decoding" /\ pc = "done"
    /\ cli' = [cli EXCEPT !.pc = cli.next]
    /\ UNCHANGED decoderVars

(***************************************************************************)
(* Inputs and specifications.                                              *)
(***************************************************************************)
\* longest run of generated tokens after the header of a report
MaxBody == 3
\* longest generated remarks section
MaxRemarks == 3
\* longest run of generated tokens of a report that is decoded twice
MaxTwice == 2
\* longest run of generated tokens of a wrapped forecast
MaxWrap == 2

SeqsUpTo(S, n) == UNION {[1..k -> S] : k \in 0..n}

\* time.Now().UTC() at the call
NowSet == {[Y |-> 2025, Mo |-> 3, D |-> 11, H |-> 12, Mi |-> 0]}

ScenarioA == "KSFO 071756Z 28015G25KT 10SM FEW008 BKN200 16/10 A2999 RMK AO2 SLP156 T01560100"
ScenarioB == "TAF KBOS 110547Z 1106/1212 14012KT 4SM -RA BR OVC008"

MetarHead == <<"KSFO", "071756Z">>
MetarTokens ==
    {"28015KT", "WS", "R06/2000", "1", "1/2SM", "-RA", "A2999", "Q1013", "QNH", "Q-5",
     "CAVOK", "XYZ", "RMK", "TEMPO"}
MetarExtra ==
    {"", "   ", "KSFO", "KSFO 0717", "KSFO 0717 10SM", "KSFO 321756Z 10SM",
     "KSFO  071756Z\t9999 \n", ScenarioA,
     "KSFO 071756Z AUTO 280V350 VV002 M02/M05 M05/ BECMG 10SM INTER Q1013 RMK",
     "KSFO 071756Z 10008MPS 28015KT 280V350 WS ALL RWY FEW008 16/10 __PROCESSED__ RMK A2999",
     "KSFO 071756Z WS020/24045KT R24/451293 R24/CLRD70 R06/2000 XWSX INTER RMK AO2 TEMPO",
     "KSFO 071756Z 28015KT -RA TEMPO 1SM A2999 16/10 RMK 10SM Q1013 AO2",
     "KSFO 071756Z 28015KT WS020/24045KT -RA INTER SN",
     "KSFO 071756Z 2000SN - 10SM 1 RASM +TSRA BR BR",
     "KSFO 071756Z 28015KT 280V350 1 1/2SM WS R06 WS ALL RWY 250V310 RMK 28015KT 250V310 1 1/2SM"}
MetarInputsUpTo(n) ==
    {Join(MetarHead \o b, " ") : b \in SeqsUpTo(MetarTokens, n)} \cup MetarExtra
MetarInputs == MetarInputsUpTo(MaxBody)

TafHead == <<"TAF", "KBOS", "110547Z", "1106/1212">>
TafTokens ==
    {"14012KT", "4SM", "OVC008", "FM111200", "FM", "120000", "BECMG", "TEMPO",
     "1108/1110", "PROB30", "PROBXX"}
TafExtra ==
    {"", "TAF KBOS", "TAF KBOS 110547Z", "KBOS 110547Z 1106/1212 P6SM", ScenarioB,
     " TAF  KBOS 110547Z\n1106/1212 14012KT \n FM111200 P6SM ",
     "TAF KBOS 1106/1212 10SM", "FMMI 110547Z 1106/1212 9999",
     "TAF FMMI 110547Z 1106/1212 14012KT BKN030 TEMPO 1108/1110 -RA"}
TafInputsUpTo(n) ==
    {Join(TafHead \o b, " ") : b \in SeqsUpTo(TafTokens, n)} \cup TafExtra
TafInputs == TafInputsUpTo(MaxBody)

RemarkTokens ==
    {"AO2", "SLP156", "SLP982", "SLPNO", "T01560100", "PK", "WND", "28045/1955",
     "XYZ123", "$", "SNINCR", "1/10", "CIG", "005"}
\* every three-digit sea-level pressure group
SlpGroups == {"SLP" \o a \o b \o c : a \in Digits, b \in Digits, c \in Digits}
RemarkExtra ==
    {<<"AO2", "SLP156", "T01560100">>, <<"PK", "WND", "28045/1955", "XYZ123">>,
     <<"SLP", "SLP-12", "SLP1X6", "SLP1234">>,
     <<"I1012", "I2005", "I3100", "I4001", "I1ABC">>,
     <<"P0012", "60012", "70125", "401001015", "52006", "I1012", "RAB15E25">>}
     \cup {<<g>> : g \in SlpGroups}
RemarkInputs == SeqsUpTo(RemarkTokens, MaxRemarks) \cup RemarkExtra

InitLocals ==
    /\ pc = "start"
    /\ call = 1
    /\ first = Nil
    /\ parts = <<>>
    /\ i = 0
    /\ endIndex = 0
    /\ rmkIndex = 0 - 1
    /\ pressureFound = FALSE
    /\ m = ZeroMETAR
    /\ t = NewTAF("")
    /\ remarks = <<>>
    /\ trace = <<>>
    /\ panicked = FALSE

\* The decoders called directly: no command-line program around them.
CliOff ==
    [pc |-> "off", metarOnly |-> FALSE, tafOnly |-> FALSE, noDecode |-> FALSE,
     offline |-> FALSE, nearest |-> FALSE, piped |-> FALSE, input |-> "",
     stationCode |-> "", rawInput |-> "", stdinHasData |-> FALSE, isStdinTAF |-> FALSE,
     siteInfoFetched |-> FALSE, next |-> "off", calls |-> <<>>]

InitCommon == now \in NowSet /\ InitLocals /\ cli = CliOff

InitMETAR ==
    /\ kind = "METAR"
    /\ raw \in MetarInputs
    /\ remarkParts = <<>>
    /\ InitCommon

InitTAF ==
    /\ kind = "TAF"
    /\ raw \in TafInputs
    /\ remarkParts = <<>>
    /\ InitCommon

InitRMK ==
    /\ kind = "RMK"
    /\ remarkParts \in RemarkInputs
    /\ raw = Join(remarkParts, " ")
    /\ InitCommon

NextMETAR ==
    \/ MetarStart
    \/ MetarPrePass
    \/ MetarMain
    \/ MetarEndMain
    \/ RemarksLoop
    \/ RemarksReturn

NextTAF ==
    \/ TafStart
    \/ TafLoop
    \/ TafFinish

NextRMK ==
    \/ RemarksStart
    \/ RemarksLoop
    \/ RemarksReturn

SpecMETAR == InitMETAR /\ [][NextMETAR]_vars
SpecTAF == InitTAF /\ [][NextTAF]_vars
SpecRMK == InitRMK /\ [][NextRMK]_vars

Init == InitMETAR \/ InitTAF \/ InitRMK
Next ==
    \/ MetarStart
    \/ MetarPrePass
    \/ MetarMain
    \/ MetarEndMain
    \/ RemarksStart
    \/ RemarksLoop
    \/ RemarksReturn
    \/ TafStart
    \/ TafLoop
    \/ TafFinish
    \/ DecodeAgain
    \/ DecodeCollapsed
    \/ CliStart
    \/ CliSiteInfo
    \/ CliStdin
    \/ CliWebMETAR
    \/ CliWebTAF
    \/ CliReturn
Spec == Init /\ [][Next]_vars

\* Both decoders, each input decoded twice in a row.
InitTwice ==
    /\ \/ kind = "METAR" /\ raw \in MetarInputsUpTo(MaxTwice)
       \/ kind = "TAF" /\ raw \in TafInputsUpTo(MaxTwice)
    /\ remarkParts = <<>>
    /\ InitCommon
NextTwice ==
    \/ NextMETAR
    \/ NextTAF
    \/ DecodeAgain
SpecTwice == InitTwice /\ [][NextTwice]_vars

\* DecodeMETAR on reports made of wind, cloud and temperature groups.
GroupTokens ==
    {"28015KT", "VRB03G15KT", "10008MPS", "E28015KT", "FEW008", "BKN200", "OVC010CB",
     "BKNCB030", "SKC", "16/10", "M02/M05", "M05/", "INTER", "RMK"}
GroupExtra ==
    {"KSFO 071756Z SCT030TCU CLR BKN200 OVC TEMPO FEW008 RMK BKN010",
     "KSFO 071756Z 00000KT 280V350 M05/ 16/10 BECMG 28015KT M02/M05 RMK AO2"}
GroupInputs ==
    {Join(MetarHead \o b, " ") : b \in SeqsUpTo(GroupTokens, MaxBody)} \cup GroupExtra
InitGroups ==
    /\ kind = "METAR"
    /\ raw \in GroupInputs
    /\ remarkParts = <<>>
    /\ InitCommon
SpecGroups == InitGroups /\ [][NextMETAR]_vars

\* DecodeTAF on a wrapped forecast, then on the same text single-spaced.
WrapTokens == {"14012KT", "FM111200", "TEMPO", "1108/1110", "BECMG", "PROB30"}
WrapSeps == {" ", "\n", "  ", "\n    ", " \t\r\n"}
WrapInputs ==
    {lead \o Join(TafHead \o b, sep) \o trail :
        lead \in {"", "\n"}, trail \in {"", " \n"}, sep \in WrapSeps,
        b \in SeqsUpTo(WrapTokens, MaxWrap)}
InitWrap ==
    /\ kind = "TAF"
    /\ raw \in WrapInputs
    /\ remarkParts = <<>>
    /\ InitCommon
NextWrap ==
    \/ NextTAF
    \/ DecodeCollapsed
SpecWrap == InitWrap /\ [][NextWrap]_vars

\* Both decoders on cloud groups, weather groups and tokens that begin like
\* a cloud group and hold a weather code.
CloudyTokens ==
    {"OVC", "OVC010", "OVCTS", "SKCRA", "FEW008", "BKNVCSH", "-RA", "VCSH", "TSRA",
     "RMK", "TEMPO"}
CloudyInputs ==
    [METAR |-> {Join(MetarHead \o b, " ") : b \in SeqsUpTo(CloudyTokens, MaxBody)},
     TAF   |-> {Join(TafHead \o b, " ") : b \in SeqsUpTo(CloudyTokens, MaxBody)}]
InitCloudy ==
    /\ kind \in {"METAR", "TAF"}
    /\ raw \in CloudyInputs[kind]
    /\ remarkParts = <<>>
    /\ InitCommon
NextCloudy ==
    \/ NextMETAR
    \/ NextTAF
SpecCloudy == InitCloudy /\ [][NextCloudy]_vars

\* The command-line program on piped reports and on a station argument.
PipedInputs ==
    {"", "  \n", ScenarioA, ScenarioB,
     "KSFO 071756Z 28015KT 10SM TEMPO 5SM RMK AO2",
     "KSFO 071756Z 28015KT 9999 BECMG 4000\n",
     "KSFO 071756Z 28015KT RMK PK WND 28045/1955",
     "KSFO 071756Z 28015KT -RA A2999",
     "KBOS 110547Z 1106/1212 14012KT\n  FM111200 P6SM",
     "TAF KBOS 110547Z 1106/1212 14012KT TEMPO 1108/1110 4SM"}
CliInits ==
    {[CliOff EXCEPT !.pc = "main", !.metarOnly = f[1], !.tafOnly = f[2],
                    !.noDecode = f[3], !.offline = f[4], !.nearest = f[5],
                    !.piped = (inp # <<>>),
                    !.input = IF inp = <<>> THEN "" ELSE inp[1]] :
        f \in [1..5 -> BOOLEAN], inp \in {<<>>} \cup {<<x>> : x \in PipedInputs}}
InitCLI ==
    /\ kind = "NONE"
    /\ raw = ""
    /\ remarkParts = <<>>
    /\ now \in NowSet
    /\ InitLocals
    /\ cli \in CliInits
NextCLI ==
    \/ CliStart
    \/ CliSiteInfo
    \/ CliStdin
    \/ CliWebMETAR
    \/ CliWebTAF
    \/ CliReturn
    \/ NextMETAR
    \/ NextTAF
SpecCLI == InitCLI /\ [][NextCLI]_vars

\* Observation times against several current dates: month ends, a leap
\* February behind the current month, a year boundary.
NowDates ==
    {[Y |-> 2025, Mo |-> 3, D |-> 11, H |-> 12, Mi |-> 0],
     [Y |-> 2024, Mo |-> 3, D |-> 1, H |-> 0, Mi |-> 30],
     [Y |-> 2025, Mo |-> 4, D |-> 30, H |-> 23, Mi |-> 59],
     [Y |-> 2025, Mo |-> 5, D |-> 15, H |-> 6, Mi |-> 0],
     [Y |-> 2025, Mo |-> 1, D |-> 1, H |-> 0, Mi |-> 0],
     [Y |-> 2025, Mo |-> 12, D |-> 31, H |-> 18, Mi |-> 0]}

TimeDays == {"01", "11", "15", "28", "29", "30", "31"}

TimeClocks == {"0000", "1756", "2359"}

TimeInputs ==
    {Join(<<"KSFO", d \o c \o "Z", "28015KT", "RMK", "AO2">>, " ") :
        d \in TimeDays, c \in TimeClocks}

InitTime ==
    /\ kind = "METAR"
    /\ raw \in TimeInputs
    /\ remarkParts = <<>>
    /\ now \in NowDates
    /\ InitLocals
    /\ cli = CliOff

SpecTime == InitTime /\ [][NextMETAR]_vars

(***************************************************************************)
(* Properties                                                              *)
(***************************************************************************)
\* The tokens of the report as DecodeMETAR first splits it.
Tokens == Fields(raw)

\* A finished DecodeMETAR call that went past the length test.
MetarDone == kind = "METAR" /\ pc = "done" /\ Len(Tokens) >= 2

\* A finished DecodeTAF call that went past the length test.
TafDone == kind = "TAF" /\ pc = "done" /\ Len(Fields(CleanRaw(raw))) >= 3

\* The iterations of the pre-pass and of the main loop that took token j.
Covering(j, branches) ==
    {q \in 1..Len(trace) : /\ trace[q].branch \in branches
                           /\ trace[q].idx <= j
                           /\ j < trace[q].idx + trace[q].n}

MainBranches ==
    {"processed", "special", "wind", "windshear", "splitvis", "vismiles", "vismeters",
     "vertvis", "runwaycond", "rvr", "weather", "windshear2", "cloud", "temp",
     "temponly", "pressureQ", "pressureA", "cavok", "unhandled"}

\* The categories token j was classified into, and those whose fields it changed.
Class(j) == UNION {trace[q].cat : q \in Covering(j, MainBranches \cup {"prepass"})}
WroteBy(j) == UNION {trace[q].wrote : q \in Covering(j, MainBranches \cup {"prepass"})}

(***************************************************************************)
(* C1 (as the specification states it): after DecodeTAF, every forecast    *)
(* period but the last ends where the next one starts, and the last ends   *)
(* at the TAF's ValidTo, whatever change groups follow the BASE period.    *)
(* The code fills a period's To only when an FM group follows it or when   *)
(* it is the last period, so TLC finds this violated.                      *)
(***************************************************************************)
C1_TimelineContinuous ==
    (TafDone /\ Len(t.Forecasts) >= 1) =>
        /\ \A j \in 1..(Len(t.Forecasts) - 1) :
              t.Forecasts[j].To = t.Forecasts[j + 1].From
        /\ t.Forecasts[Len(t.Forecasts)].To = t.ValidTo

C3_ScenarioB ==
    (kind = "TAF" /\ raw = ScenarioB /\ pc = "done") =>
        /\ t.Station = "KBOS"
        /\ t.Time.D = 11 /\ t.Time.H = 5 /\ t.Time.Mi = 47
        /\ t.ValidFrom.D = 11 /\ t.ValidFrom.H = 6 /\ t.ValidFrom.Mi = 0
        /\ t.ValidTo.D = 12 /\ t.ValidTo.H = 12 /\ t.ValidTo.Mi = 0
        /\ Len(t.Forecasts) = 1
        /\ t.Forecasts[1].Type = "BASE"
        /\ t.Forecasts[1].Wind.Direction = "140"
        /\ t.Forecasts[1].Wind.Speed = 12
        /\ t.Forecasts[1].Visibility = "4SM"
        /\ t.Forecasts[1].Weather = <<"-RA", "BR">>
        /\ Len(t.Forecasts[1].Clouds) = 1
        /\ t.Forecasts[1].Clouds[1].Coverage = "OVC"
        /\ t.Forecasts[1].Clouds[1].Height = 800

\* The Raw fields of a list of remarks, in order.
Raws(rs) == [q \in 1..Len(rs) |-> rs[q].Raw]

\* A finished processRemarks call on its own.
RemarksDone == kind = "RMK" /\ pc = "done"

(***************************************************************************)
(* C4: processRemarks takes every token exactly once, left to right: the   *)
(* Raw fields of the remarks joined by single spaces are the input tokens  *)
(* joined by single spaces, each iteration adds one remark, every remark   *)
(* has a non-empty Description, and a token no recognizer matches (XYZ123) *)
(* gives one remark of its own with Description "unknown remark code".     *)
(***************************************************************************)
C4_RemarksTotal ==
    RemarksDone =>
        /\ Join(Raws(remarks), " ") = Join(remarkParts, " ")
        /\ Len(remarks) = Len(trace)
        /\ \A q \in 1..Len(remarks) : remarks[q].Description # ""
        /\ \A k \in 1..Len(remarkParts) :
              remarkParts[k] = "XYZ123" =>
                  /\ Cardinality({q \in 1..Len(trace) :
                                     trace[q].idx <= k - 1
                                     /\ k - 1 < trace[q].idx + trace[q].n}) = 1
                  /\ \E q \in 1..Len(trace) :
                        /\ trace[q].idx = k - 1 /\ trace[q].n = 1
                        /\ remarks[q] = [Raw |-> "XYZ123",
                                         Description |-> "unknown remark code"]

\* C4 witness: a finished pass that took a three-token peak wind group and
\* an unknown token
C4_Witness ==
    /\ RemarksDone
    /\ \E q \in 1..Len(trace) : trace[q].n = 3
    /\ \E q \in 1..Len(remarks) : remarks[q].Description = "unknown remark code"

\* Q followed by an unsigned number that fits an int, or A and four digits.
IsPressureGroup(tok) ==
    \/ Len(tok) > 1 /\ Len(tok) <= 19 /\ Ch(tok, 0) = "Q" /\ IsDigits(SliceFrom(tok, 1))
    \/ Len(tok) = 5 /\ Ch(tok, 0) = "A" /\ IsDigits(SliceFrom(tok, 1))

\* The pressure a group stands for, in hundredths, and its unit.
PressureOf(tok) ==
    IF Ch(tok, 0) = "Q" THEN [v |-> Atoi(SliceFrom(tok, 1)) * 100, u |-> "hPa"]
    ELSE [v |-> Atoi(SliceFrom(tok, 1)), u |-> "inHg"]

\* The main-body positions the main loop has gone past.
Passed ==
    IF pc = "main" /\ i < endIndex THEN 2..(i - 1) ELSE 2..(endIndex - 1)

\* DecodeMETAR in or after its main loop.
InMainOrAfter ==
    kind = "METAR" /\ (pc \in {"main", "remarks"} \/ (pc = "done" /\ Len(Tokens) >= 2))

C6_ScenarioA ==
    (kind = "METAR" /\ raw = ScenarioA /\ pc = "done") =>
        /\ m.Station = "KSFO"
        /\ m.Wind = [Direction |-> "280", Speed |-> 15, Gust |-> 25, Unit |-> "KT"]
        /\ m.Visibility = "10SM"
        /\ Len(m.Clouds) = 2
        /\ m.Clouds[1].Coverage = "FEW" /\ m.Clouds[1].Height = 800
        /\ m.Clouds[2].Coverage = "BKN" /\ m.Clouds[2].Height = 20000
        /\ m.Temperature = 16
        /\ m.DewPoint = [nil |-> FALSE, v |-> 10]
        /\ m.Pressure = 2999 /\ m.PressureUnit = "inHg"
        /\ m.Unhandled = <<>>
        /\ m.Remarks =
              <<[Raw |-> "AO2",
                 Description |-> "automated station with precipitation sensor"],
                [Raw |-> "SLP156", Description |-> "sea level pressure 1015.6 hPa"],
                [Raw |-> "T01560100",
                 Description |-> "temperature 15.6°C, dew point 10.0°C"]>>

\* C6 witness: scenario A decoded to the end, remarks included
C6_Witness ==
    kind = "METAR" /\ raw = ScenarioA /\ pc = "done" /\ Len(m.Remarks) = 3

\* The earliest RMK, TEMPO, BECMG or INTER token, or the end of the input.
Boundary(ps) ==
    Min({k \in 0..(Len(ps) - 1) : At(ps, k) \in {"RMK", "TEMPO", "BECMG", "INTER"}}
        \cup {Len(ps)})

\* decoders.go:409-577: the main loop run from cursor k to eIdx
RECURSIVE MainFrom(_, _, _, _, _)
MainFrom(mm, ps, k, eIdx, pf) ==
    LET Go(r) == MainFrom(r.m, ps, r.last + 1, eIdx, r.pf)
    IN  IF k >= eIdx THEN mm ELSE Go(MainStep(mm, ps, k, eIdx, pf))

\* The record the pre-pass and the main loop give on the tokens ps alone.
BodyAlone(mm, ps) ==
    LET Run(st) == MainFrom([mm EXCEPT !.WindShear = st.ws], st.parts, 2, Len(ps), FALSE)
    IN  Run(PrePassFrom([parts |-> ps, ws |-> <<>>, trace |-> <<>>], 2, Len(ps)))

\* The main-body fields of a METAR record.
MainFields(mm) ==
    [f \in UNION {CategoryFields[c] : c \in DOMAIN CategoryFields} |-> mm[f]]

OnlyRawMETAR(rawStr) ==
    [Raw |-> rawStr, Station |-> "", Time |-> ZeroTime,
     SiteInfo |-> [Name |-> "", State |-> "", Country |-> ""],
     Wind |-> [Direction |-> "", Speed |-> 0, Gust |-> 0, Unit |-> ""],
     WindShear |-> <<>>, WindVariation |-> "", Visibility |-> "", Weather |-> <<>>,
     Clouds |-> <<>>, VertVis |-> 0, Temperature |-> 0, DewPoint |-> [nil |-> TRUE, v |-> 0],
     Pressure |-> 0, PressureUnit |-> "", Remarks |-> <<>>, RunwayConditions |-> <<>>,
     RVR |-> <<>>, SpecialCodes |-> <<>>, Unhandled |-> <<>>]

\* The zero value of every field of a TAF but Raw.
OnlyRawTAF(rawStr) ==
    [Raw |-> rawStr, Station |-> "", Time |-> ZeroTime,
     SiteInfo |-> [Name |-> "", State |-> "", Country |-> ""],
     ValidFrom |-> ZeroTime, ValidTo |-> ZeroTime, Forecasts |-> <<>>]

(***************************************************************************)
(* C8: DecodeMETAR on fewer than 2 tokens and DecodeTAF on fewer than 3    *)
(* return a record with only Raw set; no call aborts; a METAR whose second *)
(* token is no time group, and a TAF without a time group, keep the zero   *)
(* time while the station is decoded.                                      *)
(***************************************************************************)
C8_ShortInputsAndNoAbort ==
    LET Metar(toks) ==
            /\ Len(toks) < 2 => m = OnlyRawMETAR(raw)
            /\ (Len(toks) >= 2 /\ ~timeRegex(At(toks, 1)).ok) =>
                    IsZero(m.Time) /\ m.Station = At(toks, 0)
        Taf(toks) ==
            /\ Len(toks) < 3 => t = OnlyRawTAF(raw)
            /\ (Len(toks) >= 3 /\ \A k \in 0..(Len(toks) - 1) : ~timeRegex(At(toks, k)).ok) =>
                    /\ IsZero(t.Time)
                    /\ t.Station = At(toks, IF At(toks, 0) = "TAF" THEN 1 ELSE 0)
    IN  /\ ~panicked /\ pc # "panic"
        /\ (kind = "METAR" /\ pc = "done") => Metar(Tokens)
        /\ (kind = "TAF" /\ pc = "done") => Taf(Tokens)

\* C8 witness: a one-token METAR returned with only Raw set
C8_Witness ==
    kind = "METAR" /\ pc = "done" /\ raw = "KSFO" /\ m = OnlyRawMETAR("KSFO")

SlpTenths(tok) ==
    IF Atoi(SliceFrom(tok, 3)) >= 500 THEN 9000 + Atoi(SliceFrom(tok, 3))
    ELSE 10000 + Atoi(SliceFrom(tok, 3))

(***************************************************************************)
(* C10: a remark SLPnnn of three digits with value v decodes to            *)
(* 900 + v/10 hPa when v >= 500 and to 1000 + v/10 hPa when v < 500,       *)
(* printed with one decimal (SLP096 1009.6, SLP982 998.2), which lies      *)
(* between 950.0 and 1049.9 hPa.                                           *)
(***************************************************************************)
C10_SeaLevelPressure ==
    RemarksDone =>
        \A q \in 1..Len(trace) :
            LET tok == At(remarkParts, trace[q].idx)
            IN  tok \in SlpGroups =>
                    /\ remarks[q].Raw = tok
                    /\ remarks[q].Description =
                          "sea level pressure " \o Itoa(SlpTenths(tok) \div 10) \o "."
                              \o Itoa(SlpTenths(tok) % 10) \o " hPa"
                    /\ SlpTenths(tok) >= 9500 /\ SlpTenths(tok) <= 10499
                    /\ tok = "SLP096" =>
                          remarks[q].Description = "sea level pressure 1009.6 hPa"
                    /\ tok = "SLP982" =>
                          remarks[q].Description = "sea level pressure 998.2 hPa"

\* C10 witness: the groups at the two ends of each range were decoded
C10_Witness ==
    /\ RemarksDone
    /\ Len(remarks) = 1
    /\ remarkParts[1] \in {"SLP000", "SLP499", "SLP500", "SLP999"}
    /\ remarks[1].Description \in
          {"sea level pressure 1000.0 hPa", "sea level pressure 1049.9 hPa",
           "sea level pressure 950.0 hPa", "sea level pressure 999.9 hPa"}


\* The earliest RMK, TEMPO or BECMG token, or the end of the input.
TestBoundary(ps) ==
    Min({k \in 0..(Len(ps) - 1) : At(ps, k) \in {"RMK", "TEMPO", "BECMG"}} \cup {Len(ps)})

\* How many times x occurs in the sequence seq.
Count(seq, x) == Cardinality({k \in 1..Len(seq) : seq[k] = x})

BodyIndices(b) == [q \in 1..(IF b > 2 THEN b - 2 ELSE 0) |-> q + 1]

\* The tokens of toks at the 0-based indices of the sequence idx.
TokensAt(toks, idx) == [q \in 1..Len(idx) |-> At(toks, idx[q])]

\* Token j opens a split visibility: one character that is neither P, M nor /,
\* followed inside the main body by a token that ends in SM.
OpensSplit(toks, j, b) ==
    /\ j >= 2 /\ j + 1 < b
    /\ Len(At(toks, j)) = 1 /\ At(toks, j) \notin {"P", "M", "/"}
    /\ HasSuffix(At(toks, j + 1), "SM")

\* Token j is a weather token no earlier recognizer takes.
ReachesWeather(toks, j, b) ==
    /\ isWeatherCode(At(toks, j))
    /\ At(toks, j) # "__PROCESSED__"
    /\ ~HasPrefix(At(toks, j), "WS")
    /\ ~isVisibilityInMeters(At(toks, j))
    /\ ~OpensSplit(toks, j, b) /\ ~OpensSplit(toks, j - 1, b)

HeightFeet(tok) ==
    IF Len(tok) >= 6 /\ IsDigits(Slice(tok, 3, 6)) THEN DigitsVal(Slice(tok, 3, 6)) * 100
    ELSE 0

\* Clouds is parseCloud of the cloud tokens of toks before position b, in order,
\* each with the height its token states.
CloudsUpTo(toks, b) ==
    LET idx == SelectSeq(BodyIndices(b), LAMBDA j : cloudRegex(At(toks, j)).ok)
    IN  /\ m.Clouds = [q \in 1..Len(idx) |-> parseCloud(At(toks, idx[q]))]
        /\ \A q \in 1..Len(idx) :
              /\ q <= Len(m.Clouds)
              /\ m.Clouds[q].Height = HeightFeet(At(toks, idx[q]))
              /\ m.Clouds[q].Coverage = Slice(At(toks, idx[q]), 0, 3)

Pad2(n) == IF n < 10 THEN "0" \o Itoa(n) ELSE Itoa(n)

\* tm.Format("021504") + "Z"
Format021504Z(tm) == Pad2(tm.D) \o Pad2(tm.H) \o Pad2(tm.Mi) \o "Z"

\* A DDHHMMZ token the grammar accepts with DD 01..31, HH 00..23, MM 00..59.
ValidTimeToken(tok) ==
    LET Ok(mt) == /\ mt.ok
                  /\ Atoi(mt.g[1]) \in 1..31
                  /\ Atoi(mt.g[2]) \in 0..23
                  /\ Atoi(mt.g[3]) \in 0..59
    IN  Ok(timeRegex(tok))

\* C13: for a decoded METAR whose second token is a valid DDHHMMZ group, the
\* day of month, hour and minute of Time are DD, HH and MM, whatever the
\* current date: formatting Time as DDHHMM and appending Z gives the token.
C13_TimeRoundTrip ==
    LET RoundTrip(toks) ==
            (Len(toks) >= 2 /\ ValidTimeToken(At(toks, 1)))
                => /\ m.Time.D = Atoi(timeRegex(At(toks, 1)).g[1])
                   /\ m.Time.H = Atoi(timeRegex(At(toks, 1)).g[2])
                   /\ m.Time.Mi = Atoi(timeRegex(At(toks, 1)).g[3])
                   /\ Format021504Z(m.Time) = At(toks, 1)
    IN  MetarDone => RoundTrip(Tokens)


(***************************************************************************)
(* C14.  Temperature and dew point against the report's first group.       *)
(***************************************************************************)
\* Position of the first token of toks, from k on, of the form [M]dd/[M]dd;
\* Len(toks) when there is none.
RECURSIVE FirstTempFrom(_, _)
FirstTempFrom(toks, k) ==
    IF k >= Len(toks) THEN Len(toks)
    ELSE IF tempRegex(At(toks, k)).ok THEN k
    ELSE FirstTempFrom(toks, k + 1)

SignedPair(tok) ==
    LET V(mt) == [temp |-> IF mt.g[1] = "M" THEN 0 - Atoi(mt.g[2]) ELSE Atoi(mt.g[2]),
                  dew  |-> IF mt.g[3] = "M" THEN 0 - Atoi(mt.g[4]) ELSE Atoi(mt.g[4])]
    IN  V(tempRegex(tok))

\* C14: for every METAR that contains a token of the form [M]dd/[M]dd, the
\* decoded Temperature and DewPoint are the signed values of the first such
\* token of the report, and DewPoint is present.
C14_FirstTempGroupWins ==
    LET Agrees(toks, k) ==
            k < Len(toks)
                => /\ m.Temperature = SignedPair(At(toks, k)).temp
                   /\ ~m.DewPoint.nil
                   /\ m.DewPoint.v = SignedPair(At(toks, k)).dew
        First(toks) == Agrees(toks, FirstTempFrom(toks, 0))
    IN  MetarDone => First(Tokens)


(***************************************************************************)
(* C15.  Wind against the report's first knots group.                      *)
(***************************************************************************)
\* Position of the first token of toks, from k on, that matches windRegex;
\* Len(toks) when there is none.
RECURSIVE FirstWindFrom(_, _)
FirstWindFrom(toks, k) ==
    IF k >= Len(toks) THEN Len(toks)
    ELSE IF windRegex(At(toks, k)).ok THEN k
    ELSE FirstWindFrom(toks, k + 1)

\* C15: for every METAR, the decoded Wind equals parseWind of the first token
\* after the station code that matches the knots wind pattern.
C15_FirstWindGroupWins ==
    LET Agrees(toks, k) == k < Len(toks) => m.Wind = parseWind(At(toks, k))
        First(toks) == Agrees(toks, FirstWindFrom(toks, 1))
    IN  MetarDone => First(Tokens)


(***************************************************************************)
(* C16.  The shapes counted as handled against Unhandled.                  *)
(***************************************************************************)
\* ^E(\d{3})(\d{2,3})(G(\d{2,3}))?KT$
eWindRegex(s) ==
    HasPrefix(s, "E") /\ Len(s) >= 4 /\ IsDigits(Slice(s, 1, 4)) /\ windRegex(SliceFrom(s, 1)).ok

\* ^(FEW|SCT|BKN|OVC)(CB|TCU)(\d{3})$
extCloudRegex(s) ==
    \E ty \in {"CB", "TCU"} :
        /\ Len(s) = 6 + Len(ty)
        /\ Slice(s, 0, 3) \in {"FEW", "SCT", "BKN", "OVC"}
        /\ Slice(s, 3, 3 + Len(ty)) = ty
        /\ IsDigits(SliceFrom(s, 3 + Len(ty)))

\* The shapes a main-body token is skipped for as handled.
HandledShape(part) ==
    \/ windRegex(part).ok \/ windRegexMPS(part).ok \/ eWindRegex(part)
    \/ windVarRegex(part).ok
    \/ visRegexM(part).ok \/ visRegexNum(part) \/ visRegexDir(part) \/ ndvRegex(part)
    \/ isWeatherCode(part)
    \/ cloudRegex(part).ok \/ extCloudRegex(part)
    \/ vvRegex(part).ok
    \/ specialRegex(part)
    \/ tempRegex(part).ok \/ tempOnlyRegex(part).ok
    \/ (Len(part) > 1 /\ Ch(part, 0) = "Q")
    \/ pressureRegex(part).ok
    \/ cavokRegex(part)
    \/ rvrRegex(part) \/ runwayCondRegex(part).ok \/ runwayClearedRegex(part).ok

\* C16: a main-body token of a handled shape (a metres-per-second wind, an
\* E-prefixed wind and a type-before-height cloud among them) is never
\* appended to Unhandled: Unhandled holds only tokens no recognizer matches.
C16_HandledNeverUnhandled ==
    MetarDone => \A k \in 1..Len(m.Unhandled) : ~HandledShape(m.Unhandled[k])


(***************************************************************************)
(* C17: DecodeTAF gives the same Station, issue time, validity window and  *)
(* forecast periods for a wrapped TAF as for the same text with every run  *)
(* of white space replaced by one space; only the top-level Raw differs,   *)
(* each call keeping the text it was given.                                *)
(***************************************************************************)
C17_WrappedAsSingleSpaced ==
    (TafDone /\ call = 2) =>
        /\ t.Station = first.Station
        /\ t.Time = first.Time
        /\ t.ValidFrom = first.ValidFrom
        /\ t.ValidTo = first.ValidTo
        /\ t.Forecasts = first.Forecasts
        /\ [t EXCEPT !.Raw = first.Raw] = first
        /\ t.Raw = raw
        /\ CollapseFrom(first.Raw, 0, "") = raw

\* A forecast wrapped over lines, with a change group, has been decoded in
\* both forms.
C17_Witness ==
    /\ TafDone /\ call = 2
    /\ first.Raw = "\nTAF\n    KBOS\n    110547Z\n    1106/1212\n    14012KT\n    FM111200 \n"
    /\ raw = " TAF KBOS 110547Z 1106/1212 14012KT FM111200 "
    /\ t.Raw = raw
    /\ Len(t.Forecasts) = 2
    /\ t.Forecasts[1].Raw = "TAF KBOS 110547Z 1106/1212 14012KT FM111200"
    /\ t.Forecasts = first.Forecasts
    /\ t.Station = "KBOS"


(***************************************************************************)
(* C18, C19.  The command-line program.                                    *)
(***************************************************************************)
NetworkCalls == {"FetchSiteInfo", "FetchMETAR", "FetchTAF"}

\* A METAR report: station, DDHHMMZ, no leading TAF token and no validity
\* group after the time.
IsMetarReport(s) ==
    LET Shape(f) == /\ Len(f) >= 2
                    /\ f[1] # "TAF"
                    /\ timeRegex(f[2]).ok
                    /\ (Len(f) >= 3 => ~validRegex(f[3]).ok)
    IN  Shape(Fields(s))

\* C18: with neither -metar nor -taf, piped input goes to exactly one decoder
\* and a METAR report (with or without a TEMPO/BECMG trend and remarks) goes
\* to the METAR decoder, never the TAF decoder; -taf forces TAF and -metar
\* without -taf forces METAR.
C18_PipedRouting ==
    (cli.stdinHasData /\ cli.pc \in {"decoding", "exit"}) =>
        /\ Count(cli.calls, "processMETAR") + Count(cli.calls, "processTAF") = 1
        /\ cli.tafOnly => Count(cli.calls, "processTAF") = 1
        /\ (cli.metarOnly /\ ~cli.tafOnly) => Count(cli.calls, "processMETAR") = 1
        /\ (~cli.metarOnly /\ ~cli.tafOnly /\ IsMetarReport(cli.rawInput))
              => Count(cli.calls, "processMETAR") = 1

\* C19: with -offline, no run calls FetchSiteInfo, FetchMETAR or FetchTAF.
C19_OfflineNoNetwork ==
    cli.offline => \A k \in 1..Len(cli.calls) : cli.calls[k] \notin NetworkCalls


(***************************************************************************)
(* C20: every FM period ends where the period after it starts, whatever    *)
(* the type of that period, or at the TAF's ValidTo when it is the last    *)
(* one; no FM period keeps a zero To.  The code fills the To of the last   *)
(* period only when an FM group follows or at the end of the TAF, so an FM *)
(* period followed by a BECMG, TEMPO or PROB group keeps a zero To.        *)
(***************************************************************************)
C20_FmPeriodEnds ==
    TafDone =>
        \A k \in 1..Len(t.Forecasts) :
            t.Forecasts[k].Type = "FM" =>
                /\ ~IsZero(t.Forecasts[k].To)
                /\ k < Len(t.Forecasts) => t.Forecasts[k].To = t.Forecasts[k + 1].From
                /\ k = Len(t.Forecasts) => t.Forecasts[k].To = t.ValidTo


(***************************************************************************)
(* C21.  The BASE period.                                                  *)
(***************************************************************************)
\* Position of the first token of ps, from k on, for which Hit holds; Len(ps)
\* when there is none.
FirstFrom(ps, k, Hit(_)) ==
    Min({j \in k..(Len(ps) - 1) : Hit(At(ps, j))} \cup {Len(ps)})

IsValidityGroup(p) == validRegex(p).ok

\* C21: the first period of a decoded TAF is the BASE period, its From is
\* ValidFrom, and it holds exactly the wind, visibility, weather and cloud
\* groups between the validity group and the first change-group keyword, for
\* every four-character station identifier, with or without the TAF token.
C21_BasePeriod ==
    LET Expected(ps, v) ==
            BaseElements([NewForecast("BASE", CleanRaw(raw)) EXCEPT !.From = t.ValidFrom],
                         ps, v + 1, FirstFrom(ps, v + 1, IsChangeIndicator))
        Holds(ps, s) ==
            (Len(At(ps, s)) = 4 /\ FirstFrom(ps, s + 1, IsValidityGroup) < Len(ps))
                => /\ Len(t.Forecasts) >= 1
                   /\ t.Forecasts[1].Type = "BASE"
                   /\ t.Forecasts[1].From = t.ValidFrom
                   /\ \A f \in {"Wind", "Visibility", "Weather", "Clouds"} :
                         t.Forecasts[1][f]
                            = Expected(ps, FirstFrom(ps, s + 1, IsValidityGroup))[f]
        Start(ps) == Holds(ps, IF At(ps, 0) = "TAF" THEN 1 ELSE 0)
    IN  TafDone => Start(Fields(CleanRaw(raw)))


(***************************************************************************)
(* C22.  PROB groups.                                                      *)
(***************************************************************************)
\* PROB followed by digits only.
IsNumericProb(p) == HasPrefix(p, "PROB") /\ Len(p) > 4 /\ IsDigits(SliceFrom(p, 4))

\* What a step does that leaves a PROBnn token with a numeric suffix.
ProbStep ==
    LET Body(f) == [f EXCEPT !.From = ZeroTime, !.To = ZeroTime]
        Fresh(p) == [NewForecast(p, p) EXCEPT !.Probability = Atoi(SliceFrom(p, 4))]
        Timed(ps, k, old, new, iv) ==
            /\ new.From = iv.From
            /\ new.To = iv.To
            /\ i' >= k + 2
            /\ Body(new) = Body(GroupElements(Fresh(At(ps, k)), ps, k + 2).f)
        Untimed(ps, k, old, new) ==
            /\ new.From = old[Len(old)].From
            /\ new.To = old[Len(old)].To
            /\ Body(new) = Body(GroupElements(Fresh(At(ps, k)), ps, k + 1).f)
        Post(ps, k, old, new) ==
            /\ Len(new) = Len(old) + 1
            /\ SubSeq(new, 1, Len(old)) = old
            /\ new[Len(new)].Type = At(ps, k)
            /\ new[Len(new)].Probability = Atoi(SliceFrom(At(ps, k), 4))
            /\ IF k + 1 < Len(ps) /\ validRegex(At(ps, k + 1)).ok
               THEN Timed(ps, k, old, new[Len(new)],
                          Interval(validRegex(At(ps, k + 1)), now))
               ELSE Untimed(ps, k, old, new[Len(new)])
    IN  (kind = "TAF" /\ pc = "groups" /\ i < Len(parts) /\ IsNumericProb(At(parts, i)))
            => Post(parts, i, t.Forecasts, t'.Forecasts)

C23_NoCloudInWeather ==
    LET Clean(ws) == \A k \in 1..Len(ws) : ~HasCloudPrefix(ws[k])
    IN  /\ Clean(m.Weather)
        /\ \A k \in 1..Len(t.Forecasts) : Clean(t.Forecasts[k].Weather)

\* A report with a cloud group, a weather group and a token that begins with
\* OVC and holds TS has been decoded.
C23_Witness ==
    /\ MetarDone
    /\ raw = "KSFO 071756Z OVC010 -RA OVCTS"
    /\ m.Weather = <<"-RA">>
    /\ Len(m.Clouds) = 1
    /\ m.Unhandled = <<"OVCTS">>


(***************************************************************************)
(* C24: an ice-accretion remark I h vvv with hour digit h in 1, 2, 3 is    *)
(* described as 1-hour, 3-hour and 6-hour ice accretion respectively, the  *)
(* amount vvv being hundredths of an inch.  The code looks the digit up in *)
(* a table keyed 1, 3, 6, so TLC finds this violated for h = 2 and h = 3.  *)
(***************************************************************************)
C24_IceAccretionHours ==
    LET Hours(h) == CASE h = "1" -> "1-hour" [] h = "2" -> "3-hour" [] h = "3" -> "6-hour"
        IsIce(p) == /\ Len(p) = 5 /\ Ch(p, 0) = "I" /\ Ch(p, 1) \in {"1", "2", "3"}
                    /\ IsDigits(SliceFrom(p, 2))
        Described(r) ==
            IsIce(r.Raw) =>
                r.Description = Hours(Ch(r.Raw, 1)) \o " ice accretion: "
                                  \o Fmt2(Atoi(SliceFrom(r.Raw, 2))) \o " inches"
    IN  RemarksDone => \A q \in 1..Len(remarks) : Described(remarks[q])


(***************************************************************************)
(* C25.  Split statute-mile visibility.                                    *)
(***************************************************************************)
EndsInSM(p) == HasSuffix(p, "SM")

\* The visibility the first token ending in SM stands for, with the token
\* before it when the two make a split group; "" when no token ends in SM.
FirstStatuteMiles(toks) ==
    LET Group(k) ==
            IF k >= Len(toks) THEN ""
            ELSE IF k > 1 /\ Contains(At(toks, k), "/")
                    /\ ~HasPrefix(At(toks, k - 1), "P") /\ ~HasPrefix(At(toks, k - 1), "M")
                    /\ ~Contains(At(toks, k - 1), "/")
                 THEN At(toks, k - 1) \o " " \o At(toks, k)
            ELSE At(toks, k)
    IN  Group(FirstFrom(toks, 1, EndsInSM))

\* C25: in the main body a whole-number token followed by a fraction
\* statute-mile token is one visibility group, taken by one iteration that
\* advances the cursor by 2 and writes Visibility only; the decoded
\* Visibility is that of the first statute-mile group of the report.
C25_SplitVisibility ==
    LET IsSplit(toks, j) ==
            /\ At(toks, j) # "" /\ IsDigits(At(toks, j))
            /\ Contains(At(toks, j + 1), "/") /\ visRegexM(At(toks, j + 1)).ok
        AsOne(toks, b) ==
            \A j \in 2..(b - 2) :
                IsSplit(toks, j) =>
                    \E q \in 1..Len(trace) :
                        /\ trace[q].idx = j /\ trace[q].n = 2
                        /\ trace[q].branch = "splitvis"
                        /\ trace[q].wrote \subseteq {"visibility"}
        First(toks) ==
            FirstStatuteMiles(toks) # "" => m.Visibility = FirstStatuteMiles(toks)
        Both(toks) == AsOne(toks, Boundary(toks)) /\ First(toks)
    IN  MetarDone => Both(Tokens)


(***************************************************************************)
(* TAF time windows under several current dates.                           *)
(***************************************************************************)
MaxWindow == 2

WindowValidities == {"1106/1212", "1006/1112", "3018/0118", "3018/3024"}

WindowGroups ==
    {<<"FM111200">>, <<"FM101200">>, <<"FM301900">>, <<"FM010600">>,
     <<"TEMPO", "1108/1110">>, <<"BECMG", "3020/0102">>, <<"PROB30", "3022/3024">>}

RECURSIVE Flatten(_)
Flatten(ss) == IF ss = <<>> THEN <<>> ELSE Head(ss) \o Flatten(Tail(ss))

WindowInputs ==
    {Join(<<"TAF", "KBOS", "110547Z", v>> \o Flatten(b), " ") :
        v \in WindowValidities, b \in SeqsUpTo(WindowGroups, MaxWindow)}

InitWindow ==
    /\ kind = "TAF"
    /\ raw \in WindowInputs
    /\ remarkParts = <<>>
    /\ now \in NowDates
    /\ InitLocals
    /\ cli = CliOff

SpecWindow == InitWindow /\ [][NextTAF]_vars

\* Minutes-resolution order of two times.
TimeKey(tm) == (((tm.Y * 13 + tm.Mo) * 32 + tm.D) * 24 + tm.H) * 60 + tm.Mi

NotAfter(a, b) == TimeKey(a) <= TimeKey(b)

(***************************************************************************)
(* C26.  FM times against the validity window.                             *)
(***************************************************************************)
\* The DDHHMM text fm lies inside the D1H1/D2H2 text of validity group v,
\* the window running into the next month when D2H2 is below D1H1.
InsideWindow(fm, v) ==
    LET x == Atoi(fm)
        s == Atoi(validRegex(v).g[1]) * 10000 + Atoi(validRegex(v).g[2]) * 100
        e == Atoi(validRegex(v).g[3]) * 10000 + Atoi(validRegex(v).g[4]) * 100
    IN  IF s <= e THEN s <= x /\ x <= e ELSE s <= x \/ x <= e

\* C26: an FM group whose DDHHMM lies inside the validity group decodes to a
\* From with ValidFrom <= From <= ValidTo, whatever the current date.
C26_FmInsideValidity ==
    LET Holds(ps) ==
            \A k \in 1..Len(t.Forecasts) :
                LET f == t.Forecasts[k]
                    v == At(ps, FirstFrom(ps, 1, IsValidityGroup))
                IN  (/\ f.Type = "FM" /\ Len(f.Raw) = 8 /\ IsDigits(SliceFrom(f.Raw, 2))
                     /\ FirstFrom(ps, 1, IsValidityGroup) < Len(ps)
                     /\ InsideWindow(SliceFrom(f.Raw, 2), v))
                    => NotAfter(t.ValidFrom, f.From) /\ NotAfter(f.From, t.ValidTo)
    IN  TafDone => Holds(Fields(CleanRaw(raw)))

(***************************************************************************)
(* C27.  Start and end of a window.                                        *)
(***************************************************************************)
\* D1H1/D2H2 denotes an end later than its start: a later day, a later hour
\* of the same day, or a day of the next month.
EndsLater(v) ==
    LET g == validRegex(v).g
    IN  /\ Atoi(g[1]) \in 1..31 /\ Atoi(g[3]) \in 1..31
        /\ Atoi(g[2]) \in 0..24 /\ Atoi(g[4]) \in 0..24
        /\ ~(Atoi(g[1]) = Atoi(g[3]) /\ Atoi(g[4]) <= Atoi(g[2]))

\* C27: when every D1H1/D2H2 group of the TAF denotes an end later than its
\* start, ValidFrom <= ValidTo and From <= To in every BECMG, TEMPO and PROB
\* period that carries an interval.
C27_StartNotAfterEnd ==
    LET Sensible(ps) ==
            \A j \in 0..(Len(ps) - 1) : IsValidityGroup(At(ps, j)) => EndsLater(At(ps, j))
        Ordered ==
            /\ ~IsZero(t.ValidFrom) => NotAfter(t.ValidFrom, t.ValidTo)
            /\ \A k \in 1..Len(t.Forecasts) :
                   (/\ t.Forecasts[k].Type \notin {"BASE", "FM"}
                    /\ ~IsZero(t.Forecasts[k].From) /\ ~IsZero(t.Forecasts[k].To))
                   => NotAfter(t.Forecasts[k].From, t.Forecasts[k].To)
    IN  TafDone => (Sensible(Fields(CleanRaw(raw))) => Ordered)

(***************************************************************************)
(* C28.  Observation time against the current date.                        *)
(***************************************************************************)
DateKey(tm) == (tm.Y * 13 + tm.Mo) * 32 + tm.D

\* C28: the decoded observation time of a METAR and the issue time of a TAF
\* never fall on a calendar date after the current date.
C28_NotInFuture ==
    /\ MetarDone /\ ~IsZero(m.Time) => DateKey(m.Time) <= DateKey(now)
    /\ TafDone /\ ~IsZero(t.Time) => DateKey(t.Time) <= DateKey(now)


(***************************************************************************)
(* C29.  Lookahead stays inside the main body.                             *)
(***************************************************************************)
\* Trace entries q and r take a common token.
Overlap(q, r) ==
    /\ trace[q].idx < trace[r].idx + trace[r].n
    /\ trace[r].idx < trace[q].idx + trace[q].n

\* C29: every group taken by the pre-pass and by the main loop of DecodeMETAR
\* lies between token 2 and the boundary token; a token taken by one group is
\* taken by no other, the main loop only skipping what the pre-pass marked;
\* and WindVariation is the DDDVDDD token right after a wind group of the
\* main body.
C29_LookaheadInsideBody ==
    LET Inside(b) ==
            \A q \in 1..Len(trace) :
                trace[q].idx >= 2 /\ trace[q].n >= 1 /\ trace[q].idx + trace[q].n <= b
        Once ==
            \A q \in 1..Len(trace) : \A r \in (q + 1)..Len(trace) :
                Overlap(q, r) =>
                    trace[q].branch = "prepass" /\ trace[r].branch = "processed"
        Variation(toks, b) ==
            m.WindVariation # "" =>
                \E j \in 2..(b - 2) :
                    /\ windRegex(At(toks, j)).ok /\ windVarRegex(At(toks, j + 1)).ok
                    /\ m.WindVariation = At(toks, j + 1)
                    /\ \E q \in 1..Len(trace) :
                           trace[q].idx = j /\ trace[q].n = 2 /\ trace[q].branch = "wind"
        All(toks) == Inside(Boundary(toks)) /\ Once /\ Variation(toks, Boundary(toks))
    IN  (kind = "METAR" /\ pc = "main") => All(Tokens)

\* C29 witness: all four multi-token groups taken in one main body, with the
\* same shapes standing untouched after RMK.
C29_Witness ==
    /\ kind = "METAR" /\ pc = "main" /\ i >= endIndex
    /\ raw = "KSFO 071756Z 28015KT 280V350 1 1/2SM WS R06 WS ALL RWY 250V310 RMK 28015KT 250V310 1 1/2SM"
    /\ m.WindVariation = "280V350" /\ m.Visibility = "1 1/2SM"
    /\ Len(m.WindShear) = 2
    /\ \E q \in 1..Len(trace) : trace[q].branch = "prepass" /\ trace[q].n = 3
    /\ \E q \in 1..Len(trace) : trace[q].branch = "splitvis" /\ trace[q].n = 2


(***************************************************************************)
(* C30.  The cursor loops terminate.                                       *)
(***************************************************************************)
MaxLoop == 3

LoopRemarkTokens == {"AO2", "PK", "WND", "28045/1955", "SNINCR", "1/10", "XYZ123"}

LoopTafTokens ==
    {"14012KT", "FM111200", "FM", "120000", "TEMPO", "1108/1110", "PROB30", "PROBXX"}

InitLoops ==
    /\ \/ /\ kind = "RMK"
          /\ remarkParts \in SeqsUpTo(LoopRemarkTokens, MaxLoop)
          /\ raw = Join(remarkParts, " ")
       \/ /\ kind = "TAF"
          /\ raw \in {Join(TafHead \o b, " ") : b \in SeqsUpTo(LoopTafTokens, MaxLoop - 1)}
          /\ remarkParts = <<>>
    /\ InitCommon

NextLoops == NextRMK \/ NextTAF

\* The loops are plain sequential code: an iteration that can run does run.
\* Weak fairness of each loop action, its enabling condition written as the
\* guard of the action.
FairRemarksLoop ==
    []<>(~(pc = "remarks" /\ i < Len(remarkParts))) \/ []<><<RemarksLoop>>_vars

FairTafLoop ==
    []<>(~(pc = "groups" /\ i < Len(parts))) \/ []<><<TafLoop>>_vars

SpecLoops ==
    /\ InitLoops /\ [][NextLoops]_vars
    /\ FairRemarksLoop /\ FairTafLoop
    /\ WF_vars(RemarksReturn) /\ WF_vars(TafFinish)

\* One iteration of either loop moves the cursor forward, by 1 to 3 tokens in
\* the remarks pass, and adds at most one remark or one period.
CursorStep ==
    /\ (pc = "remarks" /\ pc' = "remarks") =>
           /\ i' \in (i + 1)..(i + 3)
           /\ Len(remarks') <= Len(remarks) + 1
    /\ (pc = "groups" /\ pc' = "groups") =>
           /\ i' > i
           /\ Len(t'.Forecasts) <= Len(t.Forecasts) + 1

CountsBounded ==
    /\ (kind = "RMK" /\ pc \in {"remarks", "done"}) => Len(remarks) <= Len(remarkParts)
    /\ (kind = "TAF" /\ pc \in {"groups", "done"}) => Len(t.Forecasts) <= 1 + Len(parts)

InLoop == pc \in {"remarks", "groups"}

\* C30: every iteration of the remarks loop and of the change-group loop
\* advances the cursor, there are never more remarks than remark tokens nor
\* more periods than 1 plus the number of tokens, and a loop that was entered
\* is left.
C30_LoopsTerminate ==
    /\ [][CursorStep]_vars
    /\ []CountsBounded
    /\ (InLoop ~> (pc = "done"))

\* C30 witness: the remarks pass finished after one iteration that took
\* three tokens.
C30_Witness ==
    /\ kind = "RMK" /\ pc = "done"
    /\ remarkParts = <<"PK", "WND", "28045/1955">>
    /\ Len(remarks) = 1
    /\ \E q \in 1..Len(trace) : trace[q].n = 3

====
